---- MODULE Spec2Model ----
(***************************************************************************)
(* Movement reconstruction pipeline of the Rail_junction movement_analysis *)
(* module: source-table classification and caches                          *)
(* (data_load_movement_analysis.py), event correlation, movement           *)
(* aggregation, basic adaptive sampling and lane layout                    *)
(* (data_filter_movement_analysis.py), enhanced adaptive sampling          *)
(* (plot_movement_analysis.py).                                            *)
(*                                                                         *)
(* Representation.  A Python str is a sequence of one-character strings,   *)
(* so that upper(), lstrip('0'), isdigit(), split('-'), strip() and the    *)
(* f-string key of the lane map are computed, not assumed.  A DataFrame is *)
(* [cols |-> set of column names, rows |-> sequence of rows], a row being  *)
(* a function from column names to cell values; the field "index" of a row *)
(* is its pandas index label.  Timestamps are seconds; NaT is -1.          *)
(***************************************************************************)
EXTENDS Integers, Sequences, FiniteSets, TLC

VARIABLES
    uploads,            \* uploads folder: path -> [content, mtime]
    clock,              \* modification-time source of the uploads folder
    fileTypeCache,      \* _file_type_cache: path -> type
    routeCircuitsCache, \* _route_circuits_cache: route id -> circuit list
    request,            \* arguments of the last correlator/aggregator call
    afterClear,         \* whether the call before the last was clear_cache
    circuit_data,       \* DataFrame returned by the last get_circuit_data
    movement_times,     \* rows returned by the last calculate_movement_times
    firstSeen,          \* (request, result) of the first correlation since the
                        \* sources or the caches last changed by upload/clear
    unified_in,         \* a unified table handed to the combined branch
    unified_out,        \* what the combined branch returned for it
    sample_in,          \* [df, time_span_hours] handed to the samplers
    sample_out,         \* [fn, df] the sampler that ran and what it returned
    layout_in,          \* [unique_routes, route_circuits, df]
    layout_out,         \* what calculate_y_positions computed
    plot_in,            \* [fn, ...] arguments handed to a step of the plot
    plot_out,           \* [fn, ...] what that step of the plot produced
    collect_in,         \* [routes, from_time, to_time] of a plot request
    collect_out,        \* what _collect_route_data gathered for it
    active_set,         \* generate_animation_frames: the active tracks
    train_assignments,  \* track -> train id
    train_count,        \* number of trains created
    trains              \* train id -> [color, active_tracks]

\* the locals generate_animation_frames hands to every call of
\* update_active_tracks_and_trains
trainVars == <<active_set, train_assignments, train_count, trains>>

vars == <<uploads, clock, fileTypeCache, routeCircuitsCache, request, afterClear,
          circuit_data, movement_times, firstSeen, unified_in, unified_out,
          sample_in, sample_out, layout_in, layout_out, plot_in, plot_out,
          collect_in, collect_out,
          trainVars>>

-----------------------------------------------------------------------------
(* Python str operations on character sequences *)

NaT == -1

Digits == <<"0", "1", "2", "3", "4", "5", "6", "7", "8", "9">>

DigitSet == {Digits[i] : i \in 1..10}

DigitValue(c) == (CHOOSE i \in 1..10 : Digits[i] = c) - 1

\* range of a sequence
Range(s) == {s[i] : i \in 1..Len(s)}

\* str.isdigit(): non-empty and every character a digit
IsDigit(s) == Len(s) > 0 /\ \A i \in 1..Len(s) : s[i] \in DigitSet

RECURSIVE ToInt(_)
\* int(s) for a digit string
ToInt(s) ==
    IF Len(s) = 0 THEN 0
    ELSE 10 * ToInt(SubSeq(s, 1, Len(s) - 1)) + DigitValue(s[Len(s)])

RECURSIVE IntToStr(_)
\* str(n) for an int n >= 0
IntToStr(n) ==
    IF n < 10 THEN <<Digits[n + 1]>>
    ELSE Append(IntToStr(n \div 10), Digits[(n % 10) + 1])

\* str.upper(), character by character
UpperChar(c) ==
    CASE c = "r" -> "R"
      [] c = "a" -> "A"
      [] c = "b" -> "B"
      [] c = "c" -> "C"
      [] c = "x" -> "X"
      [] OTHER -> c

Upper(s) == [i \in 1..Len(s) |-> UpperChar(s[i])]

RECURSIVE LStrip(_, _)
\* str.lstrip(ch)
LStrip(s, ch) ==
    IF Len(s) > 0 /\ s[1] = ch THEN LStrip(Tail(s), ch) ELSE s

RECURSIVE RStrip(_, _)
RStrip(s, ch) ==
    IF Len(s) > 0 /\ s[Len(s)] = ch THEN RStrip(SubSeq(s, 1, Len(s) - 1), ch)
    ELSE s

\* str.strip(): leading and trailing blanks removed
Strip(s) == RStrip(LStrip(s, " "), " ")

RECURSIVE Split(_, _)
\* str.split(sep): the pieces between separators, empty pieces kept
Split(s, sep) ==
    IF \A i \in 1..Len(s) : s[i] # sep THEN <<s>>
    ELSE LET k == CHOOSE i \in 1..Len(s) :
                     s[i] = sep /\ \A j \in 1..(i - 1) : s[j] # sep
         IN <<SubSeq(s, 1, k - 1)>> \o Split(SubSeq(s, k + 1, Len(s)), sep)

\* pd.to_numeric(s, errors='coerce') == n, for an int n: digit strings and
\* digit strings with a fraction of zeros parse to n, anything else is NaN
NumericEquals(s, n) ==
    \/ IsDigit(s) /\ ToInt(s) = n
    \/ \E k \in 2..Len(s) :
          /\ s[k] = "."
          /\ IsDigit(SubSeq(s, 1, k - 1))
          /\ ToInt(SubSeq(s, 1, k - 1)) = n
          /\ \A j \in (k + 1)..Len(s) : s[j] = "0"

-----------------------------------------------------------------------------
(* DataFrames *)

EmptyDataFrame == [cols |-> {}, rows |-> <<>>]

RECURSIVE ApplyMask(_, _)
\* df[mask]: the rows whose mask entry is TRUE, in order
ApplyMask(rows, mask) ==
    IF rows = <<>> THEN <<>>
    ELSE (IF Head(mask) THEN <<Head(rows)>> ELSE <<>>)
         \o ApplyMask(Tail(rows), Tail(mask))

\* df[Keep(row)]: boolean indexing
SelectRows(rows, Keep(_)) ==
    ApplyMask(rows, [i \in 1..Len(rows) |-> Keep(rows[i])])

\* df[col] = f(row) for every row
SetColumn(df, col, F(_)) ==
    [cols |-> df.cols \cup {col},
     rows |-> [i \in 1..Len(df.rows) |-> (col :> F(df.rows[i])) @@ df.rows[i]]]

-----------------------------------------------------------------------------
(* pd.read_csv: what a raw CSV cell becomes *)

\* a missing value (NaN) in a column of strings
NaNCell == <<"NaN">>

\* The Route_id column as read_csv types it.  A column whose cells are all
\* integer literals is int64 (leading zeros are lost); with blank cells among
\* them it is float64 (7 reads back as 7.0); any other cell makes it an
\* object column that keeps the text.  A blank cell is NaN.  The value is
\* given in the form str() prints it.
ReadCsvColumn(cells) ==
    LET present == {i \in 1..Len(cells) : cells[i] # <<>>}
        numeric == present # {} /\ \A i \in present : IsDigit(cells[i])
        floats  == numeric /\ present # 1..Len(cells)
    IN [i \in 1..Len(cells) |->
          IF cells[i] = <<>> THEN NaNCell
          ELSE IF floats THEN IntToStr(ToInt(cells[i])) \o <<".", "0">>
          ELSE IF numeric THEN IntToStr(ToInt(cells[i]))
          ELSE cells[i]]

\* pd.read_csv(path): the table with its Route_id column typed and the
\* default RangeIndex as the rows' index labels
ReadCsv(content) ==
    IF "Route_id" \in content.cols
    THEN LET ids == ReadCsvColumn([i \in 1..Len(content.rows) |->
                                      content.rows[i]["Route_id"]])
         IN [cols |-> content.cols,
             rows |-> [i \in 1..Len(content.rows) |->
                         ("Route_id" :> ids[i]) @@ ("index" :> i - 1)
                             @@ content.rows[i]]]
    ELSE [cols |-> content.cols,
          rows |-> [i \in 1..Len(content.rows) |->
                      ("index" :> i - 1) @@ content.rows[i]]]

\* Series.fillna('').astype(str).str.strip()
FillStrStrip(v) == IF v = NaNCell THEN <<>> ELSE Strip(v)

\* str(value).strip(): NaN prints as nan
StrStrip(v) == IF v = NaNCell THEN <<"n", "a", "n">> ELSE Strip(v)

-----------------------------------------------------------------------------
(* data_load_movement_analysis.py: classification and caches *)

\* df.columns.str.lower() on the column names the tables use
LowerName(n) ==
    CASE n = "Route_id" -> "route_id"
      [] n = "Route_circuit" -> "route_circuit"
      [] n = "Circuit_Name" -> "circuit_name"
      [] n = "Circuit" -> "circuit"
      [] n = "Down_timestamp" -> "down_timestamp"
      [] n = "Up_timestamp" -> "up_timestamp"
      [] n = "Down_date" -> "down_date"
      [] n = "Up_date" -> "up_date"
      [] n = "Down_time" -> "down_time"
      [] n = "Up_time" -> "up_time"
      [] n = "Movement_id" -> "movement_id"
      [] OTHER -> n

\* the classification of a table by its header, cache aside
ClassifyColumns(cols) ==
    LET columns == {LowerName(c) : c \in cols}
    IN IF "route_id" \in columns /\ "route_circuit" \in columns
         THEN "route_chart"
       ELSE IF /\ ("circuit_name" \in columns \/ "circuit" \in columns)
               /\ \/ ("down_timestamp" \in columns /\ "up_timestamp" \in columns)
                  \/ ("down_date" \in columns /\ "up_date" \in columns)
         THEN "circuit_data"
       ELSE "unknown"

\* identify_file_type answering "unknown" for every path it has cached
IdentifyFileType_CacheForgets(cache, files, path) ==
    IF path \in DOMAIN cache THEN "unknown"
    ELSE ClassifyColumns(files[path].content.cols)

\* identify_file_type(filepath): the cached answer if there is one
IdentifyFileType(cache, files, path) ==
    IF path \in DOMAIN cache THEN cache[path]
    ELSE ClassifyColumns(files[path].content.cols)

\* _file_type_cache after identify_file_type has run on every uploaded file
CacheAfterScan(cache, files) ==
    [p \in DOMAIN cache \cup DOMAIN files |-> IdentifyFileType(cache, files, p)]

\* find_files_by_type(file_type)
FindFilesByType(cache, files, file_type) ==
    {p \in DOMAIN files : IdentifyFileType(cache, files, p) = file_type}

\* has_required_uploads()[0]
HasRequiredUploads(cache, files) ==
    /\ FindFilesByType(cache, files, "route_chart") # {}
    /\ FindFilesByType(cache, files, "circuit_data") # {}

NoFile == "None"

\* get_best_file_of_type(file_type): the most recently modified match
GetBestFileOfType(cache, files, file_type) ==
    LET matching_files == FindFilesByType(cache, files, file_type)
    IN IF matching_files = {} THEN NoFile
       ELSE CHOOSE p \in matching_files :
              \A q \in matching_files : files[q].mtime <= files[p].mtime

\* the dict get_route_circuits builds from the route chart rows: a later row
\* overwrites an earlier one with the same id
RouteCircuitsOf(route_df) ==
    LET ids == [i \in 1..Len(route_df.rows) |->
                   StrStrip(route_df.rows[i]["Route_id"])]
    IN [r \in Range(ids) |->
          LET last == CHOOSE i \in 1..Len(ids) :
                          ids[i] = r /\ \A j \in (i + 1)..Len(ids) : ids[j] # r
              pieces == Split(route_df.rows[last]["Route_circuit"], "-")
          IN [k \in 1..Len(pieces) |-> Strip(pieces[k])]]

EmptyDict == <<>>

\* what get_route_circuits() loads when the cache is empty
LoadRouteCircuits(cache, files) ==
    IF ~HasRequiredUploads(cache, files) THEN EmptyDict
    ELSE LET route_chart_file == GetBestFileOfType(cache, files, "route_chart")
             route_df == ReadCsv(files[route_chart_file].content)
         IN IF {"Route_id", "Route_circuit"} \subseteq route_df.cols
            THEN RouteCircuitsOf(route_df)
            ELSE EmptyDict

-----------------------------------------------------------------------------
(* data_filter_movement_analysis.py: process_timestamps, get_circuit_data *)

\* A timestamp cell of a CSV file is <<"ts", n>>, a text that parses to the
\* instant n, a date cell <<"date", d>> (day d), a time cell <<"time", t>>
\* (t seconds after midnight); any other cell does not parse.
SecondsPerDay == 86400

\* pd.to_datetime(cell, errors='coerce')
ToDatetime(cell) == IF cell[1] = "ts" THEN cell[2] ELSE NaT

\* pd.to_datetime(date + " " + time, errors='coerce')
ToDatetimeDateTime(date, time) ==
    IF date[1] = "date" /\ time[1] = "time"
    THEN date[2] * SecondsPerDay + time[2]
    ELSE NaT

\* process_timestamps(df)
ProcessTimestamps(df) ==
    IF {"Down_timestamp", "Up_timestamp"} \subseteq df.cols
    THEN SetColumn(SetColumn(df, "Down_timestamp",
                             LAMBDA row : ToDatetime(row["Down_timestamp"])),
                   "Up_timestamp", LAMBDA row : ToDatetime(row["Up_timestamp"]))
    ELSE LET d1 == IF {"Down_date", "Down_time"} \subseteq df.cols
                   THEN SetColumn(df, "Down_timestamp", LAMBDA row :
                            ToDatetimeDateTime(row["Down_date"], row["Down_time"]))
                   ELSE df
         IN IF {"Up_date", "Up_time"} \subseteq d1.cols
            THEN SetColumn(d1, "Up_timestamp", LAMBDA row :
                     ToDatetimeDateTime(row["Up_date"], row["Up_time"]))
            ELSE d1

\* df.dropna(subset=["Down_timestamp", "Up_timestamp"])
DropInvalidTimestamps(df) ==
    [df EXCEPT !.rows = SelectRows(df.rows, LAMBDA row :
        row["Down_timestamp"] # NaT /\ row["Up_timestamp"] # NaT)]

\* duration_seconds = (Up_timestamp - Down_timestamp).dt.total_seconds()
WithDuration(df) ==
    SetColumn(df, "duration_seconds",
              LAMBDA row : row["Up_timestamp"] - row["Down_timestamp"])

\* a duration filter that drops negative durations only
PositiveDuration_NonNegative(df) ==
    [df EXCEPT !.rows = SelectRows(df.rows, LAMBDA row :
        row["duration_seconds"] >= 0)]

\* df[df["duration_seconds"] > 0]
PositiveDuration(df) ==
    [df EXCEPT !.rows = SelectRows(df.rows, LAMBDA row :
        row["duration_seconds"] > 0)]

NoTime == -1

\* a time range filter that tests the down time alone
TimeFilter_DownOnly(df, from_time, to_time) ==
    IF from_time # NoTime /\ to_time # NoTime
    THEN [df EXCEPT !.rows = SelectRows(df.rows, LAMBDA row :
            row["Down_timestamp"] >= from_time)]
    ELSE df

\* the time range filter: applied only when both ends are given
TimeFilter(df, from_time, to_time) ==
    IF from_time # NoTime /\ to_time # NoTime
    THEN [df EXCEPT !.rows = SelectRows(df.rows, LAMBDA row :
            row["Down_timestamp"] >= from_time /\ row["Up_timestamp"] <= to_time)]
    ELSE df

\* avg_speed = distance / duration_seconds * 3.6, kept as the exact fraction
\* 36 * distance / (10 * duration_seconds); distance is 1.0 unless supplied
WithSpeed(df, keepDistance) ==
    LET d == IF keepDistance /\ "distance" \in df.cols THEN df
             ELSE SetColumn(df, "distance", LAMBDA row : 1)
    IN SetColumn(d, "avg_speed", LAMBDA row :
           IF row["duration_seconds"] > 0
           THEN [num |-> 36 * row["distance"], den |-> 10 * row["duration_seconds"]]
           ELSE [num |-> 0, den |-> 1])

\* df.sort_values(by=key): numpy sorts an array of up to 16 elements by
\* insertion, which keeps rows of equal key in their order; for longer
\* arrays the order among equal keys is modelled the same way
SortByKey(rows, Less(_, _)) ==
    LET n == Len(rows)
        rank == [i \in 1..n |-> Cardinality({j \in 1..n :
                    Less(rows[j], rows[i]) \/ (~Less(rows[i], rows[j]) /\ j < i)})]
    IN [p \in 1..n |-> rows[CHOOSE i \in 1..n : rank[i] = p - 1]]

\* the route chart with Route_id as fillna('').astype(str).str.strip()
NormaliseRouteIds(df) ==
    SetColumn(df, "Route_id", LAMBDA row : FillStrStrip(row["Route_id"]))

\* Route matching of the split layout (lines 351-375): route_info and the
\* tier that produced it (0: no tier matched)
RouteInfo(route_rows, route_name) ==
    LET exact == SelectRows(route_rows, LAMBDA row : row["Route_id"] = route_name)
        upper == SelectRows(route_rows, LAMBDA row :
                     Upper(row["Route_id"]) = Upper(route_name))
        no_zeros == LStrip(route_name, "0")
        stripped == IF no_zeros # <<>>
                    THEN SelectRows(route_rows, LAMBDA row :
                             LStrip(row["Route_id"], "0") = no_zeros)
                    ELSE <<>>
        asint == SelectRows(route_rows, LAMBDA row :
                     NumericEquals(row["Route_id"], ToInt(route_name)))
    IN IF exact # <<>> THEN [tier |-> 1, rows |-> exact]
       ELSE IF upper # <<>> THEN [tier |-> 2, rows |-> upper]
       ELSE IF ~IsDigit(route_name) THEN [tier |-> 0, rows |-> <<>>]
       ELSE IF stripped # <<>> THEN [tier |-> 3, rows |-> stripped]
       ELSE IF asint # <<>> THEN [tier |-> 4, rows |-> asint]
       ELSE [tier |-> 0, rows |-> <<>>]

\* a circuit_order that counts the positions of the chain from 1
CircuitOrder_FromOne(circuit_ids, cid) ==
    CHOOSE i \in 1..Len(circuit_ids) :
        circuit_ids[i] = cid /\ \A j \in (i + 1)..Len(circuit_ids) : circuit_ids[j] # cid

\* circuit_order = {cid: idx for idx, cid in enumerate(circuit_ids)}: for a
\* circuit named twice the later position stays
CircuitOrder(circuit_ids, cid) ==
    (CHOOSE i \in 1..Len(circuit_ids) :
        circuit_ids[i] = cid /\ \A j \in (i + 1)..Len(circuit_ids) : circuit_ids[j] # cid)
    - 1

\* the circuit list of a Route_circuit cell
CircuitIds(successor_chain) ==
    LET pieces == Split(successor_chain, "-")
    IN [k \in 1..Len(pieces) |-> Strip(pieces[k])]

\* an exception leaving a block in place of a DataFrame
Raise(exception) == [cols |-> {}, rows |-> <<>>, raised |-> exception]

IsRaised(out) == "raised" \in DOMAIN out

\* except <caught>: return pd.DataFrame()
Except(out, caught) ==
    IF IsRaised(out) /\ out.raised \in caught THEN EmptyDataFrame ELSE out

\* the exceptions the model raises; all of them are Exceptions
Exceptions == {"IndexError", "KeyError", "AttributeError"}

\* df[df[col].isin(values)]
WhereIn(df, col, values) ==
    [df EXCEPT !.rows = SelectRows(df.rows, LAMBDA row : row[col] \in values)]

\* df.sort_values("order")
SortedByOrder(df) ==
    [df EXCEPT !.rows = SortByKey(df.rows, LAMBDA a, b : a["order"] < b["order"])]

\* if col not in df.columns: df[col] = value
WithDefault(df, col, value) ==
    IF col \notin df.cols THEN SetColumn(df, col, LAMBDA row : value) ELSE df

\* The route chart + circuit data approach inside its try block (lines
\* 284-409).  Indexing a missing column raises KeyError; a blank
\* Route_circuit cell is read as NaN, a float, which has no split.
SplitLayoutTry(route_content, track_content, route_name, from_time, to_time) ==
    LET route_raw == ReadCsv(route_content)
        track_raw == ReadCsv(track_content)
    IN IF "Route_id" \notin route_raw.cols THEN EmptyDataFrame
       ELSE
       LET route_df == NormaliseRouteIds(route_raw)
           stamped == ProcessTimestamps(track_raw)
       IN IF ~({"Down_timestamp", "Up_timestamp"} \subseteq stamped.cols)
          THEN Raise("KeyError")
          ELSE
          LET track_df == TimeFilter(WithSpeed(PositiveDuration(WithDuration(
                              DropInvalidTimestamps(stamped))), TRUE),
                              from_time, to_time)
              route_info == RouteInfo(route_df.rows, route_name).rows
              circuit_col == IF "circuit_interval_id" \in track_df.cols
                             THEN "circuit_interval_id" ELSE "Circuit_Name"
          IN IF route_info = <<>> THEN EmptyDataFrame
             ELSE IF "Route_circuit" \notin route_df.cols THEN Raise("KeyError")
             ELSE IF route_info[1]["Route_circuit"] = <<>>
             THEN Raise("AttributeError")
             ELSE IF circuit_col \notin track_df.cols THEN Raise("KeyError")
             ELSE
             LET circuit_ids == CircuitIds(route_info[1]["Route_circuit"])
                 filtered == WhereIn(track_df, circuit_col, Range(circuit_ids))
             IN IF filtered.rows = <<>> THEN EmptyDataFrame
                ELSE WithDefault(WithDefault(SortedByOrder(
                         SetColumn(filtered, "order", LAMBDA row :
                             CircuitOrder(circuit_ids, row[circuit_col]))),
                         "Route_id", route_name),
                         "Movement_id", <<"M", "1">>)

\* The route chart + circuit data approach with its handler (lines 411-414):
\* an IndexError or a KeyError is answered with an empty DataFrame
SplitLayout(route_content, track_content, route_name, from_time, to_time) ==
    Except(SplitLayoutTry(route_content, track_content, route_name,
                          from_time, to_time),
           {"IndexError", "KeyError"})

\* the characters the identifiers use, in code point order
CharOrder == <<" ", "-", ".", "0", "1", "2", "3", "4", "5", "6", "7", "8", "9",
               "A", "B", "C", "M", "R", "X", "_", "a", "b", "c", "n", "r", "x">>

CharRank(c) == CHOOSE i \in 1..Len(CharOrder) : CharOrder[i] = c

RECURSIVE StrLess(_, _)
\* a < b for Python str: lexicographic by code point
StrLess(a, b) ==
    IF b = <<>> THEN FALSE
    ELSE IF a = <<>> THEN TRUE
    ELSE IF a[1] # b[1] THEN CharRank(a[1]) < CharRank(b[1])
    ELSE StrLess(Tail(a), Tail(b))

\* Series.astype(str) of a Movement_id cell: NaN prints as nan
AsStr(v) == IF v = NaNCell THEN <<"n", "a", "n">> ELSE v

\* groupby(col).cumcount(): how many earlier rows carry the same value
CumCount(rows, col, i) ==
    Cardinality({j \in 1..(i - 1) : rows[j][col] = rows[i][col]})

\* The combined data approach (lines 182-282), entered when a file is
\* classified combined_data.  An exception ends in the outer handler's
\* empty DataFrame.
CombinedLayout(content, route_name, from_time, to_time) ==
    LET raw == ReadCsv(content)
    IN IF "Route_id" \notin raw.cols THEN EmptyDataFrame
       ELSE
       LET df == NormaliseRouteIds(raw)
           exact == SelectRows(df.rows, LAMBDA row : row["Route_id"] = route_name)
           upper == SelectRows(df.rows, LAMBDA row :
                        Upper(row["Route_id"]) = Upper(route_name))
           matched == IF exact # <<>> THEN exact ELSE upper
       IN IF matched = <<>> THEN EmptyDataFrame
          ELSE
          LET stamped == ProcessTimestamps([df EXCEPT !.rows = matched])
          IN IF ~({"Down_timestamp", "Up_timestamp"} \subseteq stamped.cols)
             THEN EmptyDataFrame
             ELSE
             LET filtered_df == WithSpeed(PositiveDuration(WithDuration(
                                    TimeFilter(DropInvalidTimestamps(stamped),
                                               from_time, to_time))), FALSE)
             IN IF filtered_df.rows = <<>> THEN EmptyDataFrame
                ELSE IF "Movement_id" \in filtered_df.cols
                THEN LET typed == SetColumn(filtered_df, "Movement_id",
                                      LAMBDA row : AsStr(row["Movement_id"]))
                         sorted == SortByKey(typed.rows, LAMBDA a, b :
                             \/ StrLess(a["Movement_id"], b["Movement_id"])
                             \/ /\ a["Movement_id"] = b["Movement_id"]
                                /\ a["Down_timestamp"] < b["Down_timestamp"])
                     IN [cols |-> typed.cols \cup {"order"},
                         rows |-> [i \in 1..Len(sorted) |->
                             ("order" :> CumCount(sorted, "Movement_id", i))
                                 @@ sorted[i]]]
                ELSE [cols |-> filtered_df.cols \cup {"order"},
                      rows |-> [i \in 1..Len(filtered_df.rows) |->
                          ("order" :> i - 1) @@ filtered_df.rows[i]]]

\* the try block of get_circuit_data (lines 144-418)
GetCircuitDataTry(cache, files, route_arg, from_time, to_time) ==
    IF ~HasRequiredUploads(cache, files) THEN EmptyDataFrame
    ELSE
    LET route_name == Strip(route_arg)
        combined_file == GetBestFileOfType(cache, files, "combined_data")
        route_chart_file == GetBestFileOfType(cache, files, "route_chart")
        circuit_data_file == GetBestFileOfType(cache, files, "circuit_data")
    IN IF combined_file # NoFile
       THEN CombinedLayout(files[combined_file].content, route_name,
                           from_time, to_time)
       ELSE IF route_chart_file # NoFile /\ circuit_data_file # NoFile
       THEN SplitLayout(files[route_chart_file].content,
                        files[circuit_data_file].content,
                        route_name, from_time, to_time)
       ELSE EmptyDataFrame

\* a get_circuit_data without the handler of lines 420-423
GetCircuitDataOf_Reraises(cache, files, route_arg, from_time, to_time) ==
    GetCircuitDataTry(cache, files, route_arg, from_time, to_time)

\* get_circuit_data(route_name, from_time, to_time) on the uploads folder:
\* any exception of the try block is answered with an empty DataFrame
GetCircuitDataOf(cache, files, route_arg, from_time, to_time) ==
    Except(GetCircuitDataTry(cache, files, route_arg, from_time, to_time),
           Exceptions)

-----------------------------------------------------------------------------
(* calculate_movement_times *)

RECURSIVE SumOf(_, _)
SumOf(rows, col) ==
    IF rows = <<>> THEN 0 ELSE Head(rows)[col] + SumOf(Tail(rows), col)

MinOf(rows, col) ==
    CHOOSE v \in {rows[i][col] : i \in 1..Len(rows)} :
        \A i \in 1..Len(rows) : v <= rows[i][col]

MaxOf(rows, col) ==
    CHOOSE v \in {rows[i][col] : i \in 1..Len(rows)} :
        \A i \in 1..Len(rows) : v >= rows[i][col]

\* a movement result whose End_Time is the up time of the group's first event
MovementResult_FirstUp(movement_id, group) ==
    LET start_time == MinOf(group, "Down_timestamp")
        end_time == group[1]["Up_timestamp"]
        total_circuit_time == SumOf(group, "duration_seconds")
    IN [Movement_id |-> movement_id,
        Start_Time |-> start_time,
        End_Time |-> end_time,
        Total_Journey_Time_Seconds |-> end_time - start_time,
        Total_Journey_Time_Minutes |-> [num |-> end_time - start_time, den |-> 60],
        Total_Circuit_Time_Seconds |-> total_circuit_time,
        Total_Circuit_Time_Minutes |-> [num |-> total_circuit_time, den |-> 60],
        Circuit_Count |-> Len(group),
        Average_Circuit_Duration |-> [num |-> total_circuit_time, den |-> Len(group)]]

\* one entry of movement_results (lines 453-478); minutes and the average
\* are kept as exact fractions
MovementResult(movement_id, group) ==
    LET start_time == MinOf(group, "Down_timestamp")
        end_time == MaxOf(group, "Up_timestamp")
        total_journey_time == end_time - start_time
        total_circuit_time == SumOf(group, "duration_seconds")
        circuit_count == Len(group)
    IN [Movement_id |-> movement_id,
        Start_Time |-> start_time,
        End_Time |-> end_time,
        Total_Journey_Time_Seconds |-> total_journey_time,
        Total_Journey_Time_Minutes |-> [num |-> total_journey_time, den |-> 60],
        Total_Circuit_Time_Seconds |-> total_circuit_time,
        Total_Circuit_Time_Minutes |-> [num |-> total_circuit_time, den |-> 60],
        Circuit_Count |-> circuit_count,
        Average_Circuit_Duration |->
            IF circuit_count > 0
            THEN [num |-> total_circuit_time, den |-> circuit_count]
            ELSE [num |-> 0, den |-> 1]]

\* the keys of df.groupby("Movement_id"): sorted, NaN keys dropped
GroupKeys(rows) ==
    LET keys == {rows[i]["Movement_id"] : i \in 1..Len(rows)} \ {NaNCell}
    IN [k \in 1..Cardinality(keys) |->
          CHOOSE s \in keys : Cardinality({t \in keys : StrLess(t, s)}) = k - 1]

\* calculate_movement_times, given what get_circuit_data returned; an
\* exception of that call ends in the handler's empty DataFrame
MovementTimesOf(df) ==
    IF IsRaised(df) THEN <<>>
    ELSE IF df.rows = <<>> THEN <<>>
    ELSE IF "Movement_id" \notin df.cols THEN <<>>
    ELSE LET keys == GroupKeys(df.rows)
             movement_results == [k \in 1..Len(keys) |->
                 MovementResult(keys[k], SelectRows(df.rows,
                     LAMBDA row : row["Movement_id"] = keys[k]))]
         IN SortByKey(movement_results,
                      LAMBDA a, b : a["Start_Time"] < b["Start_Time"])

-----------------------------------------------------------------------------
(* data_filter_movement_analysis.py: extract_circuit_sequence,              *)
(* calculate_y_positions.  Heights are kept in hundredths of a lane unit.   *)

Unit == 100          \* circuits are 1.0 apart, and 1.0 is the gap between routes
BarOffset == 35      \* 0.7/2, the offset of a tick inside its lane row
HalfUnit == 50       \* a boundary lies 0.5 below the route's first row
TopPadding == 300    \* top_padding = 3.0

Raised == [raised |-> TRUE]

\* extract_circuit_sequence(df, route_id): the circuits of the route's longest
\* movement group, ordered by "Down_time" (a time text <<"time", t>>); a
\* missing column is a KeyError
ExtractCircuitSequence(df, route_id) ==
    IF "Route_id" \notin df.cols THEN Raised
    ELSE LET route_data == SelectRows(df.rows,
                               LAMBDA row : row["Route_id"] = route_id)
         IN IF route_data = <<>> THEN [raised |-> FALSE, circuits |-> <<>>]
            ELSE IF "Movement_id" \notin df.cols THEN Raised
            ELSE LET keys == GroupKeys(route_data)
                     Group(k) == SelectRows(route_data,
                                     LAMBDA row : row["Movement_id"] = keys[k])
                 IN IF keys = <<>> THEN [raised |-> FALSE, circuits |-> <<>>]
                    ELSE IF {"Down_time", "Circuit_Name"} \subseteq df.cols
                    THEN LET best == CHOOSE k \in 1..Len(keys) :
                                  /\ \A j \in 1..Len(keys) :
                                        Len(Group(j)) <= Len(Group(k))
                                  /\ \A j \in 1..(k - 1) :
                                        Len(Group(j)) < Len(Group(k))
                             ordered == SortByKey(Group(best),
                                 LAMBDA a, b : a["Down_time"][2] < b["Down_time"][2])
                         IN [raised |-> FALSE,
                             circuits |-> [i \in 1..Len(ordered) |->
                                              ordered[i]["Circuit_Name"]]]
                    ELSE Raised

\* f"{route_id}_{circuit}"
PositionKey(route_id, circuit) == route_id \o <<"_">> \o circuit

\* a dict after d[keys[i]] = vals[i] for i = 1, 2, ...
UpdateDict(d, keys, vals) ==
    [k \in DOMAIN d \cup Range(keys) |->
        IF k \in Range(keys)
        THEN vals[CHOOSE i \in 1..Len(keys) :
                     keys[i] = k /\ \A j \in (i + 1)..Len(keys) : keys[j] # k]
        ELSE d[k]]

\* sorted(values) for str values
SortedStrs(values) ==
    [k \in 1..Cardinality(values) |->
        CHOOSE s \in values : Cardinality({t \in values : StrLess(t, s)}) = k - 1]

\* extract_circuit_sequence for each route without a sequence, written into
\* the dict get_route_circuits returned when it is not empty
RECURSIVE ExtractMissing(_, _, _)
ExtractMissing(missing_sequences, route_circuits, df) ==
    IF missing_sequences = <<>>
    THEN [raised |-> FALSE, route_circuits |-> route_circuits]
    ELSE LET route_id == Head(missing_sequences)
             extracted == ExtractCircuitSequence(df, route_id)
         IN IF extracted.raised THEN [raised |-> TRUE,
                                      route_circuits |-> route_circuits]
            ELSE ExtractMissing(Tail(missing_sequences),
                     IF extracted.circuits # <<>>
                     THEN UpdateDict(route_circuits, <<route_id>>,
                                     <<extracted.circuits>>)
                     ELSE route_circuits,
                     df)

\* the locals of calculate_y_positions before its loop
LayoutStart ==
    [raised |-> FALSE, y_positions |-> EmptyDict, current_y |-> 0,
     route_y_ranges |-> EmptyDict, y_labels |-> <<>>, y_positions_ticks |-> <<>>,
     route_boundary_positions |-> <<>>, circuit_route_map |-> EmptyDict,
     missing_route_data |-> <<>>]

\* the end of a route's y-range, written as the loop body ends
RouteEndY_NoGap(current_y) == current_y

RouteEndY(current_y) == current_y - Unit

\* one pass of the loop body for a route that has a circuit sequence
PlaceRoute(st, route_id, route_circuit_sequence) ==
    LET n == Len(route_circuit_sequence)
        circuit_y == [i \in 1..n |-> st.current_y + (i - 1) * Unit]
        next_y == st.current_y + n * Unit + Unit
    IN [st EXCEPT
          !.route_boundary_positions =
              IF st.current_y > 0 THEN Append(@, st.current_y - HalfUnit) ELSE @,
          !.y_positions = UpdateDict(@,
              [i \in 1..n |-> PositionKey(route_id, route_circuit_sequence[i])],
              circuit_y),
          !.circuit_route_map = UpdateDict(@, route_circuit_sequence,
                                           [i \in 1..n |-> route_id]),
          !.y_positions_ticks = @ \o [i \in 1..n |-> circuit_y[i] + BarOffset],
          !.y_labels = @ \o route_circuit_sequence,
          !.current_y = next_y,
          !.route_y_ranges = UpdateDict(@, <<route_id>>,
                                 <<<<st.current_y, RouteEndY(next_y)>>>>)]

\* the sequence the loop uses for a route: the declared one, else the one
\* extracted from the data
RouteCircuitSequence(route_circuits, df, route_id) ==
    LET declared == IF route_id \in DOMAIN route_circuits
                    THEN route_circuits[route_id] ELSE <<>>
    IN IF declared # <<>> THEN [raised |-> FALSE, circuits |-> declared]
       ELSE ExtractCircuitSequence(df, route_id)

RECURSIVE LayOutRoutes(_, _, _, _)
LayOutRoutes(unique_routes, route_circuits, df, st) ==
    IF unique_routes = <<>> \/ st.raised THEN st
    ELSE LET route_id == Head(unique_routes)
             sequence == RouteCircuitSequence(route_circuits, df, route_id)
             after ==
                 IF sequence.raised THEN [st EXCEPT !.raised = TRUE]
                 ELSE IF sequence.circuits = <<>>
                 THEN [st EXCEPT !.missing_route_data = Append(@, route_id)]
                 ELSE PlaceRoute(st, route_id, sequence.circuits)
         IN LayOutRoutes(Tail(unique_routes), route_circuits, df, after)

\* the return statement of calculate_y_positions, st being its locals
LayoutResult(st) ==
    IF st.raised THEN [done |-> TRUE, raised |-> TRUE]
    ELSE [done |-> TRUE, raised |-> FALSE,
          y_positions |-> st.y_positions, y_labels |-> st.y_labels,
          y_positions_ticks |-> st.y_positions_ticks,
          route_boundary_positions |-> st.route_boundary_positions,
          circuit_route_map |-> st.circuit_route_map,
          missing_route_data |-> st.missing_route_data,
          total_plot_height |-> st.current_y + TopPadding,
          route_y_ranges |-> st.route_y_ranges]

\* calculate_y_positions(unique_routes, route_circuits, df): its return value
\* and the route_y_ranges it has built, or the exception it lets through
CalculateYPositionsOf(unique_routes, route_circuits, df) ==
    LayoutResult(LayOutRoutes(unique_routes, route_circuits, df, LayoutStart))

-----------------------------------------------------------------------------
(* apply_adaptive_sampling (data_filter_movement_analysis.py) and           *)
(* apply_enhanced_adaptive_sampling (plot_movement_analysis.py)             *)

GroupLimit == 20     \* a group of more than 20 rows is sampled
MinSample == 10      \* apply_adaptive_sampling draws at least 10 rows
MaxBuckets == 10     \* pd.qcut is asked for at most 10 time buckets

Min(a, b) == IF a < b THEN a ELSE b
Max(a, b) == IF a > b THEN a ELSE b

\* series.unique(): the distinct values in order of first appearance
Unique(rows, col) ==
    LET firsts == {i \in 1..Len(rows) :
                      \A j \in 1..(i - 1) : rows[j][col] # rows[i][col]}
    IN [k \in 1..Cardinality(firsts) |->
          rows[CHOOSE i \in firsts :
                   Cardinality({j \in firsts : j < i}) = k - 1][col]]

\* df[df[col] == value]: a NaN cell equals nothing
RowsWhere(rows, col, value) ==
    SelectRows(rows, LAMBDA row : value # NaNCell /\ row[col] = value)

RECURSIVE Flatten(_)
Flatten(seqs) == IF seqs = <<>> THEN <<>> ELSE Head(seqs) \o Flatten(Tail(seqs))

\* the mov_data frames of the two nested loops, in loop order
MovementGroups(rows) ==
    LET routes == Unique(rows, "Route_id")
    IN Flatten([r \in 1..Len(routes) |->
          LET route_data == RowsWhere(rows, "Route_id", routes[r])
              movs == Unique(route_data, "Movement_id")
          IN [m \in 1..Len(movs) |->
                RowsWhere(route_data, "Movement_id", movs[m])]])

\* the subsets of S with k elements
RECURSIVE KSubsets(_, _)
KSubsets(S, k) ==
    IF k = 0 THEN {{}}
    ELSE IF Cardinality(S) < k THEN {}
    ELSE LET m == CHOOSE x \in S : \A y \in S : x <= y
         IN {T \cup {m} : T \in KSubsets(S \ {m}, k - 1)}
                \cup KSubsets(S \ {m}, k)

\* the rows of a frame at the given positions, in the frame's order
RowsAt(rows, positions) ==
    ApplyMask(rows, [i \in 1..Len(rows) |-> i \in positions])

Reverse(rows) == [i \in 1..Len(rows) |-> rows[Len(rows) + 1 - i]]

\* frame.sample(n): n rows of the frame.  sample returns them in a random
\* order, of which the frame's order and its reverse are kept here.
Sample(rows, n) ==
    LET picks == {RowsAt(rows, T) : T \in KSubsets(1..Len(rows), n)}
    IN picks \cup {Reverse(r) : r \in picks}

\* all concatenations of one outcome per group, in group order
RECURSIVE ConcatOutcomes(_)
ConcatOutcomes(outcomes) ==
    IF outcomes = <<>> THEN {<<>>}
    ELSE {a \o b : a \in Head(outcomes), b \in ConcatOutcomes(Tail(outcomes))}

\* int(n * rate) for a rate num/den
Scaled(n, rate) == (n * rate.num) \div rate.den

\* apply_adaptive_sampling: critical_df, the first and the last row of every
\* circuit by position (twice the same row for a circuit with one row)
CriticalPoints(mov_data) ==
    LET circuits == Unique(mov_data, "Circuit_Name")
    IN Flatten([c \in 1..Len(circuits) |->
          LET circuit_rows == RowsWhere(mov_data, "Circuit_Name", circuits[c])
          IN <<circuit_rows[1], circuit_rows[Len(circuit_rows)]>>])

\* apply_adaptive_sampling: the possible mov_sampled of one group
MovSampled(mov_data, sample_size_factor) ==
    IF Len(mov_data) > GroupLimit
    THEN LET critical_df == CriticalPoints(mov_data)
             critical_index == {critical_df[i]["index"] : i \in 1..Len(critical_df)}
             remaining == SelectRows(mov_data,
                              LAMBDA row : row["index"] \notin critical_index)
             sample_size == Min(Len(remaining),
                                Max(MinSample, Scaled(Len(remaining),
                                                      sample_size_factor)))
         IN IF Len(remaining) > 0
            THEN {critical_df \o sampled : sampled \in Sample(remaining, sample_size)}
            ELSE {critical_df}
    ELSE {mov_data}

\* apply_adaptive_sampling: its strategy for a time span; the first and the
\* last row of a circuit are its critical points
AdaptiveStrategy(time_span_hours) ==
    IF time_span_hours <= 24
    THEN [reduces |-> FALSE, sample_rate |-> [num |-> 1, den |-> 1],
          critical_window |-> 0]
    ELSE IF time_span_hours <= 168
    THEN [reduces |-> TRUE, sample_rate |-> [num |-> 1, den |-> 2],
          critical_window |-> 1]
    ELSE [reduces |-> TRUE, sample_rate |-> [num |-> 1, den |-> 4],
          critical_window |-> 1]

NoSampling ==
    [reduces |-> FALSE, sample_rate |-> [num |-> 1, den |-> 1],
     critical_window |-> 0]

\* apply_adaptive_sampling(df, time_span_hours): the frames it can return
ApplyAdaptiveSamplingOf(df, time_span_hours) ==
    IF ~AdaptiveStrategy(time_span_hours).reduces THEN {df}
    ELSE LET sample_size_factor == AdaptiveStrategy(time_span_hours).sample_rate
             groups == MovementGroups(df.rows)
             outcomes == ConcatOutcomes([g \in 1..Len(groups) |->
                             MovSampled(groups[g], sample_size_factor)])
         IN {[cols |-> IF rows = <<>> THEN {} ELSE df.cols, rows |-> rows] :
                rows \in outcomes}

\* df['_temp_row_id'] = range(len(df))
WithTempRowId(rows) ==
    [i \in 1..Len(rows) |-> rows[i] @@ ("_temp_row_id" :> (i - 1))]

DropColumn(rows, col) ==
    [i \in 1..Len(rows) |-> [c \in DOMAIN rows[i] \ {col} |-> rows[i][c]]]

\* apply_enhanced_adaptive_sampling: critical_points, for every circuit the
\* first and the last critical_window rows by position, or all its rows
EnhancedCriticalPoints(mov_data, critical_window) ==
    LET circuits == Unique(mov_data, "Circuit_Name")
    IN Flatten([c \in 1..Len(circuits) |->
          LET circuit_rows == RowsWhere(mov_data, "Circuit_Name", circuits[c])
              n == Len(circuit_rows)
          IN IF n <= critical_window * 2 THEN circuit_rows
             ELSE SubSeq(circuit_rows, 1, critical_window)
                      \o SubSeq(circuit_rows, n - critical_window + 1, n)])

\* the values of a column in ascending order
SortedValues(rows, col) ==
    LET sorted == SortByKey(rows, LAMBDA a, b : a[col] < b[col])
    IN [i \in 1..Len(sorted) |-> sorted[i][col]]

\* pd.qcut(values, q): its q + 1 bin edges, each multiplied by q; edge k is
\* the k/q quantile, interpolated linearly between two neighbouring values
QcutEdges(values, q) ==
    LET n == Len(values)
    IN [e \in 1..(q + 1) |->
          LET pos == (e - 1) * (n - 1)
              lo == pos \div q
              r == pos % q
          IN IF r = 0 THEN q * values[lo + 1]
             ELSE q * values[lo + 1] + r * (values[lo + 2] - values[lo + 1])]

\* pd.qcut raises ValueError when two bin edges coincide
QcutRaises(values, q) ==
    LET edges == QcutEdges(values, q)
    IN \E e \in 1..q : edges[e] = edges[e + 1]

\* pd.qcut(..., labels=False): the bucket of a value, the lowest edge included
BucketOf(edges, q, v) ==
    CHOOSE k \in 0..(q - 1) :
        \/ k = 0 /\ q * v = edges[1]
        \/ edges[k + 1] < q * v /\ q * v <= edges[k + 2]

TimeBucket(values, q, v) == BucketOf(QcutEdges(values, q), q, v)

\* the possible strat_sampled: the buckets in ascending order, from each a
\* sample of min(max(1, int(len * rate)), len) rows
StratSampled(remaining, sample_rate) ==
    LET q == Min(MaxBuckets, Len(remaining))
        values == SortedValues(remaining, "Down_timestamp")
        bucketed == [i \in 1..Len(remaining) |->
            remaining[i] @@ ("time_bucket" :>
                TimeBucket(values, q, remaining[i]["Down_timestamp"]))]
        buckets == [k \in 1..q |-> SelectRows(bucketed,
                                       LAMBDA row : row["time_bucket"] = k - 1)]
        filled == SelectRows(buckets, LAMBDA x : x # <<>>)
    IN ConcatOutcomes([k \in 1..Len(filled) |->
          Sample(filled[k],
                 Min(Max(1, Scaled(Len(filled[k]), sample_rate)),
                     Len(filled[k])))])

\* a frame without time buckets, as pd.concat fills the column
NoBucket(rows) == [i \in 1..Len(rows) |-> rows[i] @@ ("time_bucket" :> NaNCell)]

\* a full_sample that keeps a group whole only below 20 rows and else keeps
\* its critical points alone
FullSample_BelowLimit(mov_data, sample_rate, critical_window) ==
    IF Len(mov_data) < GroupLimit
    THEN {[rows |-> NoBucket(mov_data), bucketed |-> FALSE]}
    ELSE {[rows |-> NoBucket(EnhancedCriticalPoints(mov_data, critical_window)),
           bucketed |-> FALSE]}

\* apply_enhanced_adaptive_sampling: the possible full_sample of one group;
\* bucketed tells whether the stratified sampling ran
FullSample(mov_data, sample_rate, critical_window) ==
    IF Len(mov_data) <= GroupLimit
    THEN {[rows |-> NoBucket(mov_data), bucketed |-> FALSE]}
    ELSE LET critical_points == EnhancedCriticalPoints(mov_data, critical_window)
             critical_indices == {critical_points[i]["_temp_row_id"] :
                                     i \in 1..Len(critical_points)}
             remaining == SelectRows(mov_data,
                 LAMBDA row : row["_temp_row_id"] \notin critical_indices)
             sample_size == Max(1, Scaled(Len(remaining), sample_rate))
         IN IF Len(remaining) > 0
            THEN IF QcutRaises(SortedValues(remaining, "Down_timestamp"),
                               Min(MaxBuckets, Len(remaining)))
                 THEN {[rows |-> NoBucket(critical_points \o sampled),
                        bucketed |-> FALSE] :
                          sampled \in Sample(remaining, sample_size)}
                 ELSE {[rows |-> NoBucket(critical_points) \o strat_sampled,
                        bucketed |-> TRUE] :
                          strat_sampled \in StratSampled(remaining, sample_rate)}
            ELSE {[rows |-> NoBucket(critical_points), bucketed |-> FALSE]}

\* all concatenations of one full_sample per group
RECURSIVE ConcatSamples(_)
ConcatSamples(outcomes) ==
    IF outcomes = <<>> THEN {[rows |-> <<>>, bucketed |-> FALSE]}
    ELSE {[rows |-> a.rows \o b.rows, bucketed |-> a.bucketed \/ b.bucketed] :
             a \in Head(outcomes), b \in ConcatSamples(Tail(outcomes))}

\* apply_enhanced_adaptive_sampling: the sampling strategy of a time span
SamplingStrategy(time_span_hours) ==
    IF time_span_hours <= 48
    THEN [reduces |-> FALSE, sample_rate |-> [num |-> 1, den |-> 1],
          critical_window |-> 0]
    ELSE IF time_span_hours <= 168
    THEN [reduces |-> TRUE, sample_rate |-> [num |-> 3, den |-> 10],
          critical_window |-> 3]
    ELSE IF time_span_hours <= 720
    THEN [reduces |-> TRUE, sample_rate |-> [num |-> 3, den |-> 20],
          critical_window |-> 2]
    ELSE [reduces |-> TRUE, sample_rate |-> [num |-> 1, den |-> 20],
          critical_window |-> 1]

RECURSIVE Total(_)
Total(numbers) ==
    IF numbers = <<>> THEN 0 ELSE Head(numbers) + Total(Tail(numbers))

\* the number of rows of every time bucket of remaining, given its
\* Down_timestamp values in ascending order: bucket k holds the values above
\* edge k up to edge k + 1, the lowest bucket the lowest edge as well
BucketSizes(values, q) ==
    LET edges == QcutEdges(values, q)
        upTo == [k \in 0..q |->
                    IF k = 0 THEN 0
                    ELSE LET edge == edges[k + 1]
                         IN Cardinality({i \in 1..Len(values) :
                                            q * values[i] <= edge})]
    IN [k \in 1..q |-> upTo[k] - upTo[k - 1]]

\* apply_enhanced_adaptive_sampling: the number of rows of strat_sampled for
\* the non-critical rows of one group, given their Down_timestamp values in
\* ascending order: one sample per non-empty time bucket, or a sample of
\* sample_size rows when pd.qcut raises
StratSampledSize(values, sample_rate) ==
    LET n == Len(values)
        q == Min(MaxBuckets, n)
        sample_size == Max(1, Scaled(n, sample_rate))
    IN IF QcutRaises(values, q)
       THEN [stratified |-> FALSE, size |-> sample_size]
       ELSE LET sizes == BucketSizes(values, q)
                taken == [k \in 1..q |->
                             IF sizes[k] = 0 THEN 0
                             ELSE Min(Max(1, Scaled(sizes[k], sample_rate)),
                                      sizes[k])]
            IN [stratified |-> TRUE, size |-> Total(taken)]

\* apply_enhanced_adaptive_sampling(df, time_span_hours): the frames it can
\* return.  keeps_bucket: whether groupby.apply hands the grouping column
\* time_bucket on to strat_sampled, which depends on the pandas release.
\* Rows with equal Down_timestamp stay in concatenation order.
ApplyEnhancedAdaptiveSamplingOf(df, time_span_hours, keeps_bucket) ==
    IF ~SamplingStrategy(time_span_hours).reduces THEN {df}
    ELSE LET sample_rate == SamplingStrategy(time_span_hours).sample_rate
             critical_window == SamplingStrategy(time_span_hours).critical_window
             groups == MovementGroups(WithTempRowId(df.rows))
             outcomes == ConcatSamples([g \in 1..Len(groups) |->
                             FullSample(groups[g], sample_rate, critical_window)])
             Finish(o) ==
                 LET kept == IF o.bucketed /\ keeps_bucket THEN o.rows
                             ELSE DropColumn(o.rows, "time_bucket")
                     rows == DropColumn(kept, "_temp_row_id")
                     cols == IF o.bucketed /\ keeps_bucket
                             THEN df.cols \cup {"time_bucket"} ELSE df.cols
                 IN IF rows = <<>> THEN EmptyDataFrame
                    ELSE [cols |-> cols,
                          rows |-> IF "Down_timestamp" \in cols
                                   THEN SortByKey(rows, LAMBDA a, b :
                                       a["Down_timestamp"] < b["Down_timestamp"])
                                   ELSE rows]
         IN {Finish(o) : o \in outcomes}

-----------------------------------------------------------------------------
(* Source tables the correlator is run on *)

MaxRows == 2        \* rows of a generated circuit table
MaxRouteRows == 2   \* rows of a generated route chart

\* sequences over S of length 1..n
RECURSIVE SeqsUpTo(_, _)
SeqsUpTo(S, n) ==
    IF n = 0 THEN {}
    ELSE LET shorter == SeqsUpTo(S, n - 1)
         IN {<<x>> : x \in S} \cup shorter
            \cup {Append(t, x) : t \in {u \in shorter : Len(u) = n - 1}, x \in S}

Bad == <<"bad">>
Ts(n) == <<"ts", n>>

\* (Down, Up) cells: two valid intervals, a zero and a negative duration, an
\* unparsable Down and an unparsable Up
Timings == {<<Ts(10), Ts(20)>>, <<Ts(20), Ts(40)>>, <<Ts(20), Ts(20)>>,
            <<Ts(30), Ts(20)>>, <<Bad, Ts(20)>>, <<Ts(10), Bad>>}

CircuitNames == {<<"A">>, <<"B">>}

\* circuit tables in the timestamp format with a Movement_id column
EventRows ==
    {[Circuit_Name |-> c, Down_timestamp |-> t[1], Up_timestamp |-> t[2],
      Movement_id |-> <<"M", "1">>] : c \in CircuitNames, t \in Timings}
    \cup {[Circuit_Name |-> c, Down_timestamp |-> Ts(10),
           Up_timestamp |-> Ts(20), Movement_id |-> NaNCell] :
              c \in CircuitNames}
    \cup {[Circuit_Name |-> <<"A">>, Down_timestamp |-> Ts(10),
           Up_timestamp |-> Ts(20), Movement_id |-> <<"M", "2">>],
          [Circuit_Name |-> <<"B">>, Down_timestamp |-> Ts(20),
           Up_timestamp |-> Ts(40), Movement_id |-> <<"M", "2">>]}

EventTables ==
    {[cols |-> {"Circuit_Name", "Down_timestamp", "Up_timestamp", "Movement_id"},
      rows |-> r] : r \in SeqsUpTo(EventRows, MaxRows)}

\* Route_id cells of a route chart, as written in the file
RouteIdCells == {<<"0", "0", "7">>, <<"7">>, <<"r", "1">>, <<"R", "1">>,
                 <<"0", "0">>, <<"0">>, <<>>}

ChainAB == <<"A", "-", "B">>
ChainBA == <<"B", " ", "-", " ", "A">>
ChainABA == <<"A", "-", "B", "-", "A">>

\* chart rows: every id with the chain A-B, and one row with the chain B - A
RouteRows ==
    {[Route_id |-> r, Route_circuit |-> ChainAB] : r \in RouteIdCells}
    \cup {[Route_id |-> <<"R", "1">>, Route_circuit |-> ChainBA]}

RouteCharts ==
    {[cols |-> {"Route_id", "Route_circuit"}, rows |-> r] :
        r \in SeqsUpTo(RouteRows, MaxRouteRows)}

\* a few fixed route charts for the runs that vary the events
FewRouteCharts ==
    {[cols |-> {"Route_id", "Route_circuit"},
      rows |-> <<[Route_id |-> <<"0", "0", "7">>, Route_circuit |-> ChainAB],
                 [Route_id |-> <<"r", "1">>, Route_circuit |-> ChainABA],
                 [Route_id |-> <<"0", "0">>, Route_circuit |-> ChainBA]>>]}

\* the movements of the aggregation scenario: three movements over A, B, C
\* with durations 60, 45 and 30 seconds
ScenarioRows ==
    [i \in 1..9 |->
        LET m == (i - 1) \div 3
            k == (i - 1) % 3
            down == 1000 * m + (IF k = 0 THEN 0 ELSE IF k = 1 THEN 60 ELSE 105)
            dur == IF k = 0 THEN 60 ELSE IF k = 1 THEN 45 ELSE 30
        IN [Circuit_Name |-> <<CharOrder[14 + k]>>,
            Down_timestamp |-> Ts(down), Up_timestamp |-> Ts(down + dur),
            Movement_id |-> <<"M", Digits[m + 2]>>]]

ScenarioRouteChart ==
    [cols |-> {"Route_id", "Route_circuit"},
     rows |-> <<[Route_id |-> <<"R", "1">>,
                 Route_circuit |-> <<"A", "-", "B", "-", "C">>]>>]

\* a route chart whose row leaves the Route_circuit cell blank
BlankChainChart ==
    [cols |-> {"Route_id", "Route_circuit"},
     rows |-> <<[Route_id |-> <<"R", "1">>, Route_circuit |-> <<>>]>>]

\* fixed circuit tables of each column layout the classifier accepts
FewCircuitTables ==
    { \* timestamp format, Movement_id column
      [cols |-> {"Circuit_Name", "Down_timestamp", "Up_timestamp", "Movement_id"},
       rows |-> <<[Circuit_Name |-> <<"B">>, Down_timestamp |-> Ts(20),
                   Up_timestamp |-> Ts(40), Movement_id |-> <<"M", "1">>],
                  [Circuit_Name |-> <<"A">>, Down_timestamp |-> Ts(10),
                   Up_timestamp |-> Ts(20), Movement_id |-> <<"M", "1">>]>>],
      \* timestamp format, neither Movement_id nor Route_id
      [cols |-> {"Circuit_Name", "Down_timestamp", "Up_timestamp"},
       rows |-> <<[Circuit_Name |-> <<"A">>, Down_timestamp |-> Ts(10),
                   Up_timestamp |-> Ts(20)],
                  [Circuit_Name |-> <<"B">>, Down_timestamp |-> Ts(20),
                   Up_timestamp |-> Ts(40)]>>],
      \* the movement data template: Movement_id and Route_id columns
      [cols |-> {"Circuit_Name", "Down_timestamp", "Up_timestamp", "Movement_id",
                 "Route_id"},
       rows |-> <<[Circuit_Name |-> <<"A">>, Down_timestamp |-> Ts(10),
                   Up_timestamp |-> Ts(20), Movement_id |-> <<"M", "1">>,
                   Route_id |-> <<"R", "1">>],
                  [Circuit_Name |-> <<"B">>, Down_timestamp |-> Ts(20),
                   Up_timestamp |-> Ts(40), Movement_id |-> <<"M", "2">>,
                   Route_id |-> <<"r", "1">>]>>],
      \* date and time in separate fields
      [cols |-> {"Circuit_Name", "Down_date", "Down_time", "Up_date", "Up_time"},
       rows |-> <<[Circuit_Name |-> <<"A">>, Down_date |-> <<"date", 0>>,
                   Down_time |-> <<"time", 10>>, Up_date |-> <<"date", 0>>,
                   Up_time |-> <<"time", 20>>],
                  [Circuit_Name |-> <<"B">>, Down_date |-> <<"date", 0>>,
                   Down_time |-> Bad, Up_date |-> <<"date", 0>>,
                   Up_time |-> <<"time", 30>>]>>],
      \* a Circuit column instead of Circuit_Name
      [cols |-> {"Circuit", "Down_timestamp", "Up_timestamp"},
       rows |-> <<[Circuit |-> <<"A">>, Down_timestamp |-> Ts(10),
                   Up_timestamp |-> Ts(20)]>>] }

ScenarioTable ==
    [cols |-> {"Circuit_Name", "Down_timestamp", "Up_timestamp", "Movement_id"},
     rows |-> ScenarioRows]

\* unified tables: route id, circuit, timestamps and movement id in one table
UnifiedRows ==
    {[Route_id |-> r, Circuit_Name |-> <<"A">>, Down_timestamp |-> t[1],
      Up_timestamp |-> t[2], Movement_id |-> m] :
        r \in {<<"0", "0", "7">>, <<"r", "1">>}, t \in Timings,
        m \in {<<"M", "1">>}}

UnifiedTables ==
    {[cols |-> {"Route_id", "Circuit_Name", "Down_timestamp", "Up_timestamp",
                "Movement_id"},
      rows |-> r] : r \in SeqsUpTo(UnifiedRows, MaxRows)}

\* what a caller asks for
RouteArgs == {<<"0", "0", "7">>, <<"7">>, <<"r", "1">>, <<"0", "0">>,
              <<"R", "1">>}

Windows == {<<NoTime, NoTime>>, <<10, 30>>}

NoRequest == [fn |-> "none", route |-> <<>>, from_time |-> NoTime,
              to_time |-> NoTime]
NoTable == [cols |-> {}, rows |-> <<>>]
\* firstSeen remembers one get_circuit_data call: its request, its result,
\* whether other calls ran after it and whether the request was repeated
NoCall == [request |-> NoRequest, result |-> EmptyDataFrame,
           between |-> FALSE, repeated |-> FALSE]

OtherCallSeen ==
    firstSeen' = IF firstSeen = NoCall THEN firstSeen
                 ELSE [firstSeen EXCEPT !.between = TRUE]

RoutePath == "routes.csv"
CircuitPath == "circuits.csv"

\* an uploads folder holding a route chart and no circuit table
ChartOnlyFolder(chart) == (RoutePath :> [content |-> chart, mtime |-> 1])

\* an uploads folder holding a route chart and a circuit table
Folder(chart, track) ==
    (RoutePath :> [content |-> chart, mtime |-> 1])
    @@ (CircuitPath :> [content |-> track, mtime |-> 2])

EmptyFolder == <<>>
EmptyCache == <<>>

-----------------------------------------------------------------------------
(* Operations *)

\* the samplers are not part of a specification
SamplerIdle ==
    /\ sample_in = [fn |-> "none", df |-> NoTable, time_span_hours |-> 0]
    /\ sample_out = [fn |-> "none", df |-> NoTable]

\* the layout planner is not part of a specification
LayoutIdle ==
    /\ layout_in = [unique_routes |-> <<>>, route_circuits |-> EmptyDict,
                    df |-> NoTable]
    /\ layout_out = [done |-> FALSE]

\* no step of the plot has been run on its own
PlotIdle ==
    /\ plot_in = [fn |-> "none"]
    /\ plot_out = [fn |-> "none"]

\* no plot request is being collected
CollectIdle ==
    /\ collect_in = [routes |-> <<>>, from_time |-> NoTime, to_time |-> NoTime]
    /\ collect_out = [done |-> FALSE]

OtherInputsIdle == SamplerIdle /\ LayoutIdle /\ PlotIdle /\ CollectIdle

\* nothing is uploaded and nothing has been called
PipelineIdle ==
    /\ uploads = EmptyFolder
    /\ clock = 2
    /\ fileTypeCache = EmptyCache
    /\ routeCircuitsCache = EmptyDict
    /\ request = NoRequest
    /\ afterClear = FALSE
    /\ circuit_data = EmptyDataFrame
    /\ movement_times = <<>>
    /\ firstSeen = NoCall
    /\ unified_in = NoTable
    /\ unified_out = EmptyDataFrame

\* no signal log is being animated
AnimationIdle ==
    /\ active_set = {}
    /\ train_assignments = EmptyDict
    /\ train_count = 0
    /\ trains = EmptyDict

\* get_circuit_data(route, from_time, to_time): every file of the folder is
\* classified on the way (has_required_uploads), which fills the type cache
GetCircuitData(route, from_time, to_time) ==
    /\ request' = [fn |-> "get_circuit_data", route |-> route,
                   from_time |-> from_time, to_time |-> to_time]
    /\ afterClear' = (request.fn = "clear_cache")
    /\ circuit_data' = GetCircuitDataOf(fileTypeCache, uploads, route,
                                        from_time, to_time)
    /\ fileTypeCache' = CacheAfterScan(fileTypeCache, uploads)
    /\ \E remember \in BOOLEAN :
          firstSeen' = IF remember
                       THEN [request |-> request', result |-> circuit_data',
                             between |-> FALSE, repeated |-> FALSE]
                       ELSE IF firstSeen.request = request'
                       THEN [firstSeen EXCEPT !.repeated = TRUE]
                       ELSE firstSeen
    /\ UNCHANGED <<trainVars, uploads, clock, routeCircuitsCache, movement_times,
                   unified_in, unified_out, sample_in, sample_out, layout_in,
                   layout_out,
                   plot_in, plot_out, collect_in, collect_out>>

\* calculate_movement_times(route, from_time, to_time): circuit_data is what
\* its get_circuit_data call returned
CalculateMovementTimes(route, from_time, to_time) ==
    /\ request' = [fn |-> "calculate_movement_times", route |-> route,
                   from_time |-> from_time, to_time |-> to_time]
    /\ afterClear' = (request.fn = "clear_cache")
    /\ circuit_data' = GetCircuitDataOf(fileTypeCache, uploads, route,
                                        from_time, to_time)
    /\ movement_times' = MovementTimesOf(circuit_data')
    /\ fileTypeCache' = CacheAfterScan(fileTypeCache, uploads)
    /\ OtherCallSeen
    /\ UNCHANGED <<trainVars, uploads, clock, routeCircuitsCache, unified_in,
                   unified_out, sample_in, sample_out, layout_in, layout_out,
                   plot_in, plot_out, collect_in, collect_out>>

\* the combined data approach of get_circuit_data run on a unified table
CombinedApproach(route, from_time, to_time) ==
    /\ unified_in # NoTable
    /\ request' = [fn |-> "combined", route |-> route,
                   from_time |-> from_time, to_time |-> to_time]
    /\ afterClear' = (request.fn = "clear_cache")
    /\ unified_out' = CombinedLayout(unified_in, Strip(route), from_time, to_time)
    /\ UNCHANGED <<trainVars, uploads, clock, fileTypeCache, routeCircuitsCache,
                   circuit_data, movement_times, firstSeen, unified_in,
                   sample_in, sample_out, layout_in, layout_out,
                   plot_in, plot_out, collect_in, collect_out>>

\* a clear_cache that resets the route cache and leaves the file types
ClearCache_KeepsFileTypes ==
    /\ routeCircuitsCache' = EmptyDict
    /\ firstSeen' = NoCall
    /\ request' = [NoRequest EXCEPT !.fn = "clear_cache"]
    /\ afterClear' = (request.fn = "clear_cache")
    /\ UNCHANGED <<trainVars, uploads, clock, fileTypeCache, circuit_data, movement_times,
                   unified_in, unified_out, sample_in, sample_out, layout_in,
                   layout_out, plot_in, plot_out, collect_in, collect_out>>

\* clear_cache()
ClearCache ==
    /\ routeCircuitsCache' = EmptyDict
    /\ fileTypeCache' = EmptyCache
    /\ firstSeen' = NoCall
    /\ request' = [NoRequest EXCEPT !.fn = "clear_cache"]
    /\ afterClear' = (request.fn = "clear_cache")
    /\ UNCHANGED <<trainVars, uploads, clock, circuit_data, movement_times,
                   unified_in, unified_out, sample_in, sample_out, layout_in,
                   layout_out,
                   plot_in, plot_out, collect_in, collect_out>>

\* get_route_circuits(): the cached dict if it is non-empty, else a load
GetRouteCircuits ==
    /\ IF routeCircuitsCache # EmptyDict
       THEN UNCHANGED <<trainVars, routeCircuitsCache, fileTypeCache>>
       ELSE /\ routeCircuitsCache' = LoadRouteCircuits(fileTypeCache, uploads)
            /\ fileTypeCache' = CacheAfterScan(fileTypeCache, uploads)
    /\ request' = [NoRequest EXCEPT !.fn = "get_route_circuits"]
    /\ afterClear' = (request.fn = "clear_cache")
    /\ OtherCallSeen
    /\ UNCHANGED <<trainVars, uploads, clock, circuit_data, movement_times,
                   unified_in, unified_out, sample_in, sample_out, layout_in,
                   layout_out,
                   plot_in, plot_out, collect_in, collect_out>>

\* get_route_circuits() as its caller sees it: the dict it returns and
\* whether that dict is the object bound to _route_circuits_cache, so that
\* writing into it writes into the cache
GetRouteCircuitsOf(cached_circuits, cache, files) ==
    IF cached_circuits # EmptyDict
    THEN [route_circuits |-> cached_circuits, cached |-> TRUE]
    ELSE IF ~HasRequiredUploads(cache, files)
    THEN [route_circuits |-> EmptyDict, cached |-> FALSE]
    ELSE LET route_chart_file == GetBestFileOfType(cache, files, "route_chart")
             route_df == ReadCsv(files[route_chart_file].content)
         IN IF {"Route_id", "Route_circuit"} \subseteq route_df.cols
            THEN [route_circuits |-> RouteCircuitsOf(route_df), cached |-> TRUE]
            ELSE [route_circuits |-> EmptyDict, cached |-> route_df.rows = <<>>]

\* generate_plot(df) on the events of the last correlation: it identifies
\* the uploaded files, takes the dict of get_route_circuits and writes the
\* sequences it extracts for routes without one into that dict
GeneratePlot ==
    /\ request' = [NoRequest EXCEPT !.fn = "generate_plot"]
    /\ afterClear' = (request.fn = "clear_cache")
    /\ OtherCallSeen
    /\ IF circuit_data.rows = <<>> \/ "Route_id" \notin circuit_data.cols
       THEN UNCHANGED <<trainVars, routeCircuitsCache, fileTypeCache>>
       ELSE LET scanned == CacheAfterScan(fileTypeCache, uploads)
                unique_routes == SortedStrs({circuit_data.rows[i]["Route_id"] :
                                     i \in 1..Len(circuit_data.rows)})
                loaded == GetRouteCircuitsOf(routeCircuitsCache, scanned, uploads)
                missing_sequences == SelectSeq(unique_routes,
                    LAMBDA r : r \notin DOMAIN loaded.route_circuits)
                filled == ExtractMissing(missing_sequences,
                                         loaded.route_circuits, circuit_data)
            IN /\ fileTypeCache' = scanned
               /\ routeCircuitsCache' = IF loaded.cached
                                        THEN filled.route_circuits
                                        ELSE routeCircuitsCache
    /\ UNCHANGED <<trainVars, uploads, clock, circuit_data, movement_times,
                   unified_in, unified_out, sample_in, sample_out, layout_in,
                   layout_out, plot_in, plot_out, collect_in, collect_out>>

MaxUploads == 2     \* uploads after the initial folder

Paths == {RoutePath, CircuitPath}

\* upload_files() with one file: saved, classified, removed again if its type
\* is unknown, otherwise the caches are cleared and the folder is re-scanned
UploadFiles(path, content) ==
    LET saved == (path :> [content |-> content, mtime |-> clock + 1]) @@ uploads
        file_type == IdentifyFileType(fileTypeCache, saved, path)
        typed == (path :> file_type) @@ fileTypeCache
    IN /\ clock < 2 + MaxUploads
       /\ clock' = clock + 1
       /\ IF file_type = "unknown"
          THEN /\ uploads' = [p \in DOMAIN saved \ {path} |-> saved[p]]
               /\ fileTypeCache' = typed
               /\ UNCHANGED routeCircuitsCache
          ELSE /\ uploads' = saved
               /\ fileTypeCache' = CacheAfterScan(EmptyCache, saved)
               /\ routeCircuitsCache' = EmptyDict
       /\ firstSeen' = NoCall
       /\ request' = [NoRequest EXCEPT !.fn = "upload_files"]
       /\ afterClear' = (request.fn = "clear_cache")
       /\ UNCHANGED <<trainVars, circuit_data, movement_times, unified_in, unified_out,
                      sample_in, sample_out, layout_in, layout_out,
                      plot_in, plot_out, collect_in, collect_out>>

-----------------------------------------------------------------------------
(* Specification of the correlator and aggregator as functions of the       *)
(* source tables: one call on each folder                                   *)

InitCorrelate ==
    /\ AnimationIdle
    /\ \/ /\ \E chart \in FewRouteCharts, track \in EventTables :
                uploads = Folder(chart, track)
          /\ unified_in = NoTable
       \/ /\ \E chart \in RouteCharts, track \in FewCircuitTables :
                uploads = Folder(chart, track)
          /\ unified_in = NoTable
       \/ /\ uploads \in {Folder(ScenarioRouteChart, ScenarioTable),
                         Folder(BlankChainChart, ScenarioTable),
                         ChartOnlyFolder(ScenarioRouteChart)}
          /\ unified_in = NoTable
       \/ /\ uploads = EmptyFolder
          /\ unified_in \in UnifiedTables
    /\ clock = 2
    /\ fileTypeCache = EmptyCache
    /\ routeCircuitsCache = EmptyDict
    /\ request = NoRequest
    /\ afterClear = FALSE
    /\ circuit_data = EmptyDataFrame
    /\ movement_times = <<>>
    /\ firstSeen = NoCall
    /\ unified_out = EmptyDataFrame
    /\ OtherInputsIdle

\* the windows a folder is queried with: the fixed circuit tables also with
\* a window that begins after their first event and ends with their last
WindowsFor(files) ==
    IF CircuitPath \in DOMAIN files /\ files[CircuitPath].content \in FewCircuitTables
    THEN Windows \cup {<<20, 40>>}
    ELSE Windows

NextCorrelate ==
    /\ request = NoRequest
    /\ \E route \in RouteArgs, w \in WindowsFor(uploads) :
          \/ uploads # EmptyFolder /\ CalculateMovementTimes(route, w[1], w[2])
          \/ CombinedApproach(route, w[1], w[2])

SpecCorrelate == InitCorrelate /\ [][NextCorrelate]_vars

-----------------------------------------------------------------------------
(* Specification of the pipeline as a state machine: uploads, cache resets, *)
(* registry lookups and correlator calls in any order                       *)

TheRouteChart == CHOOSE chart \in FewRouteCharts : TRUE

\* a second route chart, in which route 7 has the chain B - A
OtherRouteChart ==
    [cols |-> {"Route_id", "Route_circuit"},
     rows |-> <<[Route_id |-> <<"7">>, Route_circuit |-> ChainBA],
                [Route_id |-> <<"r", "1">>, Route_circuit |-> ChainAB]>>]

TwoEventTable ==
    [cols |-> {"Circuit_Name", "Down_timestamp", "Up_timestamp", "Movement_id"},
     rows |-> <<[Circuit_Name |-> <<"B">>, Down_timestamp |-> Ts(20),
                 Up_timestamp |-> Ts(40), Movement_id |-> <<"M", "1">>],
                [Circuit_Name |-> <<"A">>, Down_timestamp |-> Ts(10),
                 Up_timestamp |-> Ts(20), Movement_id |-> <<"M", "1">>]>>]

\* the two events in the date and time format
DatedEventTable ==
    [cols |-> {"Circuit_Name", "Down_date", "Down_time", "Up_date", "Up_time",
               "Movement_id"},
     rows |-> <<[Circuit_Name |-> <<"B">>, Down_date |-> <<"date", 0>>,
                 Down_time |-> <<"time", 20>>, Up_date |-> <<"date", 0>>,
                 Up_time |-> <<"time", 40>>, Movement_id |-> <<"M", "1">>],
                [Circuit_Name |-> <<"A">>, Down_date |-> <<"date", 0>>,
                 Down_time |-> <<"time", 10>>, Up_date |-> <<"date", 0>>,
                 Up_time |-> <<"time", 20>>, Movement_id |-> <<"M", "1">>]>>]

UnknownTable == [cols |-> {"foo"}, rows |-> <<[foo |-> <<"1">>]>>]

UploadContents == {OtherRouteChart, TwoEventTable, UnknownTable}

Init ==
    /\ AnimationIdle
    /\ uploads \in {EmptyFolder, Folder(TheRouteChart, TwoEventTable),
                    Folder(TheRouteChart, DatedEventTable)}
    /\ clock = 2
    /\ fileTypeCache = EmptyCache
    /\ routeCircuitsCache = EmptyDict
    /\ request = NoRequest
    /\ afterClear = FALSE
    /\ circuit_data = EmptyDataFrame
    /\ movement_times = <<>>
    /\ firstSeen = NoCall
    /\ unified_in = NoTable
    /\ unified_out = EmptyDataFrame
    /\ OtherInputsIdle

Next ==
    \/ \E path \in Paths, content \in UploadContents : UploadFiles(path, content)
    \/ ClearCache
    \/ GetRouteCircuits
    \/ GeneratePlot
    \/ \E route \in {<<"0", "0", "7">>, <<"7">>}, w \in Windows :
          \/ GetCircuitData(route, w[1], w[2])
          \/ CalculateMovementTimes(route, w[1], w[2])

Spec == Init /\ [][Next]_vars

-----------------------------------------------------------------------------
(* Specification of the lane layout as a function of its arguments *)

MaxRoutes == 3       \* routes in unique_routes

LayoutRoutes == {<<"A">>, <<"A", "_", "B">>, <<"R">>, <<"S">>}

\* declared circuit sequences; circuit names with an underscore as in the
\* circuit data template
DeclaredSequences ==
    {<<<<"C">>>>, <<<<"B", "_", "C">>, <<"C">>>>, <<<<"C">>, <<"B">>, <<"C">>>>}

RouteLists ==
    {l \in SeqsUpTo(LayoutRoutes, MaxRoutes) :
        \A i, j \in 1..Len(l) : l[i] = l[j] => i = j}

RouteCircuitDicts ==
    UNION {[d -> DeclaredSequences] : d \in SUBSET LayoutRoutes}

LayoutRow(route, movement, circuit, t) ==
    [Route_id |-> route, Movement_id |-> movement, Circuit_Name |-> circuit,
     Down_time |-> <<"time", t>>, Down_timestamp |-> t]

LayoutRows ==
    <<LayoutRow(<<"A">>, <<"M", "1">>, <<"C">>, 2),
      LayoutRow(<<"A">>, <<"M", "1">>, <<"B", "_", "C">>, 1),
      LayoutRow(<<"A">>, <<"M", "2">>, <<"B">>, 1),
      LayoutRow(<<"A", "_", "B">>, <<"M", "3">>, <<"C">>, 1),
      LayoutRow(<<"R">>, NaNCell, <<"C">>, 1)>>

\* a table in the date and time format, the same events in the timestamp
\* format (no Down_time column), and a table without events of route A
LayoutTable(cols, rows) ==
    [cols |-> cols,
     rows |-> [i \in 1..Len(rows) |-> [c \in cols |-> rows[i][c]]]]

LayoutTables ==
    {LayoutTable({"Route_id", "Movement_id", "Circuit_Name", "Down_time"},
                 LayoutRows),
     LayoutTable({"Route_id", "Movement_id", "Circuit_Name", "Down_timestamp"},
                 LayoutRows),
     LayoutTable({"Route_id", "Movement_id", "Circuit_Name", "Down_time"},
                 SubSeq(LayoutRows, 4, 5))}

CalculateYPositions ==
    /\ ~layout_out.done
    /\ layout_out' = CalculateYPositionsOf(layout_in.unique_routes,
                         layout_in.route_circuits, layout_in.df)
    /\ UNCHANGED <<trainVars, uploads, clock, fileTypeCache, routeCircuitsCache, request, afterClear,
                   circuit_data, movement_times, firstSeen, unified_in,
                   unified_out, sample_in, sample_out, layout_in,
                   plot_in, plot_out, collect_in, collect_out>>

InitLayout ==
    /\ AnimationIdle
    /\ PipelineIdle
    /\ SamplerIdle
    /\ PlotIdle
    /\ CollectIdle
    /\ \E l \in RouteLists, d \in RouteCircuitDicts, t \in LayoutTables :
          layout_in = [unique_routes |-> l, route_circuits |-> d, df |-> t]
    /\ layout_out = [done |-> FALSE]

NextLayout == CalculateYPositions

SpecLayout == InitLayout /\ [][NextLayout]_vars

-----------------------------------------------------------------------------
(* Specification of the two samplers as functions of their arguments *)

MaxOver == 1         \* rows of the large group above GroupLimit

SampleCols ==
    {"Route_id", "Movement_id", "Circuit_Name", "Down_timestamp", "Up_timestamp"}

SampleRow(movement, circuit, down, label) ==
    [Route_id |-> <<"R", "1">>, Movement_id |-> movement,
     Circuit_Name |-> circuit, Down_timestamp |-> down,
     Up_timestamp |-> down + 50, index |-> label]

\* the k-th event of the large group in time order: on one circuit or on five
\* circuits in turn, at distinct instants or four events to an instant
LargeGroupRow(k, five, ties) ==
    SampleRow(<<"M", "1">>,
              IF five THEN <<CharOrder[14 + ((k - 1) % 5)]>> ELSE <<"A">>,
              IF ties THEN 100 * ((k + 3) \div 4) ELSE 100 * k,
              k - 1)

\* the large group in time order, or with its last five events moved in front
LargeGroup(n, five, ties, rotated) ==
    [i \in 1..n |->
        LargeGroupRow(IF ~rotated THEN i
                      ELSE IF i <= 5 THEN n - 5 + i ELSE i - 5, five, ties)]

\* a movement of two events and an event without a movement id
SmallGroups(n) ==
    <<SampleRow(<<"M", "2">>, <<"B">>, 320, n),
      SampleRow(NaNCell, <<"A">>, 330, n + 1),
      SampleRow(<<"M", "2">>, <<"A">>, 310, n + 2)>>

SampleTable(n, five, ties, rotated) ==
    [cols |-> SampleCols,
     rows |-> LargeGroup(n, five, ties, rotated) \o SmallGroups(n)]

GroupSizes == GroupLimit..(GroupLimit + MaxOver)

\* apply_adaptive_sampling draws at least 10 of the remaining rows: its
\* tables have five circuits, which leaves few rows to draw from
BasicTables ==
    {SampleTable(n, TRUE, ties, rotated) :
        n \in GroupSizes, ties \in BOOLEAN, rotated \in BOOLEAN}

EnhancedTables ==
    {SampleTable(n, five, ties, rotated) :
        n \in GroupSizes, five \in BOOLEAN, ties \in BOOLEAN, rotated \in BOOLEAN}

\* time spans in hours, on and beyond the limits of the tiers
SampleSpans == {24, 48, 168, 720, 721}

ApplyAdaptiveSampling ==
    /\ sample_in.fn = "apply_adaptive_sampling"
    /\ sample_out.fn = "none"
    /\ \E sampled_df \in ApplyAdaptiveSamplingOf(sample_in.df,
                                                sample_in.time_span_hours) :
          sample_out' = [fn |-> sample_in.fn, df |-> sampled_df]
    /\ UNCHANGED <<trainVars, uploads, clock, fileTypeCache, routeCircuitsCache, request, afterClear,
                   circuit_data, movement_times, firstSeen, unified_in,
                   unified_out, sample_in, layout_in, layout_out,
                   plot_in, plot_out, collect_in, collect_out>>

ApplyEnhancedAdaptiveSampling ==
    /\ sample_in.fn = "apply_enhanced_adaptive_sampling"
    /\ sample_out.fn = "none"
    /\ \E keeps_bucket \in BOOLEAN :
          \E sampled_df \in ApplyEnhancedAdaptiveSamplingOf(sample_in.df,
                               sample_in.time_span_hours, keeps_bucket) :
             sample_out' = [fn |-> sample_in.fn, df |-> sampled_df]
    /\ UNCHANGED <<trainVars, uploads, clock, fileTypeCache, routeCircuitsCache, request, afterClear,
                   circuit_data, movement_times, firstSeen, unified_in,
                   unified_out, sample_in, layout_in, layout_out,
                   plot_in, plot_out, collect_in, collect_out>>

InitSample ==
    /\ AnimationIdle
    /\ PipelineIdle
    /\ LayoutIdle
    /\ PlotIdle
    /\ CollectIdle
    /\ \E hours \in SampleSpans :
          \/ \E df \in BasicTables :
                sample_in = [fn |-> "apply_adaptive_sampling", df |-> df,
                             time_span_hours |-> hours]
          \/ \E df \in EnhancedTables :
                sample_in = [fn |-> "apply_enhanced_adaptive_sampling",
                             df |-> df, time_span_hours |-> hours]
    /\ sample_out = [fn |-> "none", df |-> NoTable]

NextSample == ApplyAdaptiveSampling \/ ApplyEnhancedAdaptiveSampling

SpecSample == InitSample /\ [][NextSample]_vars

-----------------------------------------------------------------------------
(* Claims about the correlator and the aggregator (SpecCorrelate) *)

Correlated == request.fn = "calculate_movement_times"

\* the circuit table the call read, timestamps parsed, nothing dropped
SourceEvents ==
    ProcessTimestamps(ReadCsv(uploads[CircuitPath].content)).rows

UnifiedSourceEvents == ProcessTimestamps(ReadCsv(unified_in)).rows

\* the row of a source table a result row came from, by its index label
SourceOf(source, row) == source[row["index"] + 1]

ValidEvent(row, source) ==
    /\ row["Down_timestamp"] # NaT
    /\ row["Up_timestamp"] # NaT
    /\ row["Down_timestamp"] <= row["Up_timestamp"]
    /\ row["duration_seconds"] > 0
    /\ row["duration_seconds"] = row["Up_timestamp"] - row["Down_timestamp"]
    /\ SourceOf(source, row)["Down_timestamp"] = row["Down_timestamp"]
    /\ SourceOf(source, row)["Up_timestamp"] = row["Up_timestamp"]

\* C1: every event get_circuit_data returns, in the split layout and in the
\* combined layout, with or without a time window, has parsable timestamps
\* with Down_timestamp <= Up_timestamp and duration_seconds > 0, and is the
\* source row of its index label: no row with an unparsable timestamp or a
\* non-positive duration is in a result.
C1_ValidEvents ==
    /\ Correlated =>
          \A i \in 1..Len(circuit_data.rows) :
              ValidEvent(circuit_data.rows[i], SourceEvents)
    /\ request.fn = "combined" =>
          \A i \in 1..Len(unified_out.rows) :
              ValidEvent(unified_out.rows[i], UnifiedSourceEvents)

\* a source row the correlator must drop
Malformed(row) ==
    \/ row["Down_timestamp"] = NaT
    \/ row["Up_timestamp"] = NaT
    \/ row["Up_timestamp"] <= row["Down_timestamp"]

\* a windowed call that returned events from a source holding a malformed row
C1_Witness ==
    /\ Correlated
    /\ request.from_time # NoTime
    /\ circuit_data.rows # <<>>
    /\ \E i \in 1..Len(SourceEvents) : Malformed(SourceEvents[i])

\* C2: calculate_movement_times partitions the correlated events by movement
\* id: each event is counted in exactly one Movement and the Circuit_Count
\* values add up to the number of correlated events.
C2_Partition ==
    Correlated =>
        /\ SumOf(movement_times, "Circuit_Count") = Len(circuit_data.rows)
        /\ \A i \in 1..Len(circuit_data.rows) :
              Cardinality({k \in 1..Len(movement_times) :
                  movement_times[k]["Movement_id"]
                      = circuit_data.rows[i]["Movement_id"]}) = 1

\* the events of a result that carry a movement id
EventsOf(movement_id) ==
    SelectRows(circuit_data.rows, LAMBDA row : row["Movement_id"] = movement_id)

\* the aggregate a Movement must carry for its group of events
AggregatesGroup(m, group) ==
    /\ group # <<>>
    /\ \E i \in 1..Len(group) : m["Start_Time"] = group[i]["Down_timestamp"]
    /\ \A i \in 1..Len(group) : m["Start_Time"] <= group[i]["Down_timestamp"]
    /\ \E i \in 1..Len(group) : m["End_Time"] = group[i]["Up_timestamp"]
    /\ \A i \in 1..Len(group) : m["End_Time"] >= group[i]["Up_timestamp"]
    /\ m["Total_Journey_Time_Seconds"] = m["End_Time"] - m["Start_Time"]
    /\ m["Total_Circuit_Time_Seconds"] = SumOf(group, "duration_seconds")
    /\ m["Circuit_Count"] = Len(group)
    /\ m["Circuit_Count"] > 0
    /\ m["Average_Circuit_Duration"]["num"] * m["Circuit_Count"]
          = m["Total_Circuit_Time_Seconds"] * m["Average_Circuit_Duration"]["den"]
    /\ m["Average_Circuit_Duration"]["den"] > 0

ScenarioCall ==
    /\ Correlated
    /\ uploads = Folder(ScenarioRouteChart, ScenarioTable)
    /\ request.route = <<"R", "1">>
    /\ request.from_time = NoTime

\* C8: every Movement that calculate_movement_times returns carries, for the
\* events of its movement id, Start_Time = min down time, End_Time = max up
\* time, the journey time as their difference, the circuit time as the sum of
\* the durations, Circuit_Count as the group size and the average as circuit
\* time over count, no count being 0; every movement id of the events has one
\* Movement; and the three movements of the scenario (durations 60, 45, 30)
\* give three Movements of count 3 and 135 circuit seconds.
C8_MovementFields ==
    /\ Correlated =>
          /\ \A k \in 1..Len(movement_times) :
                AggregatesGroup(movement_times[k],
                                EventsOf(movement_times[k]["Movement_id"]))
          /\ \A k, l \in 1..Len(movement_times) :
                movement_times[k]["Movement_id"] = movement_times[l]["Movement_id"]
                    => k = l
          /\ \A i \in 1..Len(circuit_data.rows) :
                circuit_data.rows[i]["Movement_id"] # NaNCell =>
                    \E k \in 1..Len(movement_times) :
                        movement_times[k]["Movement_id"]
                            = circuit_data.rows[i]["Movement_id"]
    /\ ScenarioCall =>
          /\ Len(movement_times) = 3
          /\ \A k \in 1..3 :
                /\ movement_times[k]["Circuit_Count"] = 3
                /\ movement_times[k]["Total_Circuit_Time_Seconds"] = 135

\* the scenario was aggregated
C8_Witness == ScenarioCall /\ Len(movement_times) = 3

\* the route ids of the uploaded route chart as get_circuit_data compares them
StoredRouteIds ==
    LET rows == NormaliseRouteIds(ReadCsv(uploads[RoutePath].content)).rows
    IN {rows[i]["Route_id"] : i \in 1..Len(rows)}

\* C5: with route id "007" stored (and no "7"), get_circuit_data("7") returns
\* the events get_circuit_data("007") returns, field by field.
C5_SameEvents ==
    (/\ Correlated
     /\ request.route = <<"7">>
     /\ <<"0", "0", "7">> \in StoredRouteIds
     /\ <<"7">> \notin StoredRouteIds)
    => circuit_data = GetCircuitDataOf(fileTypeCache, uploads, <<"0", "0", "7">>,
                                       request.from_time, request.to_time)

\* the four matching tiers of the claim, applied to a set of stored ids:
\* the ids the first matching tier selects
TierMatch(ids, route_name) ==
    LET t1 == {r \in ids : r = route_name}
        t2 == {r \in ids : Upper(r) = Upper(route_name)}
        t3 == {r \in ids : LStrip(route_name, "0") # <<>>
                           /\ LStrip(r, "0") = LStrip(route_name, "0")}
        t4 == {r \in ids : NumericEquals(r, ToInt(route_name))}
    IN IF t1 # {} THEN t1
       ELSE IF t2 # {} THEN t2
       ELSE IF ~IsDigit(route_name) THEN {}
       ELSE IF t3 # {} THEN t3
       ELSE t4

UnifiedRouteIds ==
    LET rows == NormaliseRouteIds(ReadCsv(unified_in)).rows
    IN {rows[i]["Route_id"] : i \in 1..Len(rows)}

\* the valid events of the unified table whose route id is in ids and that
\* lie inside the requested window
UnifiedEventsOf(ids) ==
    SelectRows(NormaliseRouteIds(ProcessTimestamps(ReadCsv(unified_in))).rows,
        LAMBDA row :
            /\ row["Route_id"] \in ids
            /\ ~Malformed(row)
            /\ \/ request.from_time = NoTime
               \/ request.to_time = NoTime
               \/ /\ row["Down_timestamp"] >= request.from_time
                  /\ row["Up_timestamp"] <= request.to_time)

C7_Idempotent ==
    [][(request'.fn = "get_circuit_data" /\ firstSeen.request = request')
          => circuit_data' = firstSeen.result]_vars

\* a repeated call came back with events, other calls having run in between
C7_Witness ==
    /\ request.fn = "get_circuit_data"
    /\ firstSeen.request = request
    /\ firstSeen.repeated
    /\ firstSeen.between
    /\ circuit_data.rows # <<>>

-----------------------------------------------------------------------------
(* Claims about the lane layout (SpecLayout) *)

LaidOut == layout_out.done /\ ~layout_out.raised

\* the sequence calculate_y_positions used for a route of the call
SequenceOf(route_id) ==
    RouteCircuitSequence(layout_in.route_circuits, layout_in.df, route_id).circuits

\* the routes of the call that were given lane rows
LaidOutRoutes ==
    {r \in Range(layout_in.unique_routes) : SequenceOf(r) # <<>>}

\* C4: the closed y-ranges [route_start_y, route_end_y] that
\* calculate_y_positions computes for two distinct laid-out routes never
\* intersect, whether the sequences are declared or derived from the data and
\* whichever routes are skipped; every laid-out route has such a range.
C4_RangesDisjoint ==
    LaidOut =>
        /\ DOMAIN layout_out.route_y_ranges = LaidOutRoutes
        /\ \A r1, r2 \in LaidOutRoutes :
              r1 # r2 =>
                  \/ layout_out.route_y_ranges[r1][2] < layout_out.route_y_ranges[r2][1]
                  \/ layout_out.route_y_ranges[r2][2] < layout_out.route_y_ranges[r1][1]
        /\ \A r \in LaidOutRoutes :
              layout_out.route_y_ranges[r][1] <= layout_out.route_y_ranges[r][2]

\* two routes are laid out, one with a declared and one with a derived
\* sequence, and one route is skipped
C4_Witness ==
    /\ LaidOut
    /\ layout_out.missing_route_data # <<>>
    /\ \E r1, r2 \in LaidOutRoutes :
          /\ r1 \in DOMAIN layout_in.route_circuits
          /\ r2 \notin DOMAIN layout_in.route_circuits
          /\ Len(SequenceOf(r1)) # Len(SequenceOf(r2))

\* the (route, circuit) pairs that were given a lane row
LaidOutPairs ==
    {p \in LaidOutRoutes \X Range(layout_out.y_labels) :
        p[2] \in Range(SequenceOf(p[1]))}

\* C10: the lane assignment of calculate_y_positions is one-to-one on
\* (route, circuit) pairs: two distinct laid-out pairs never share a key or a
\* vertical position.
C10_OneToOne ==
    LaidOut =>
        \A p, q \in LaidOutPairs :
            p # q =>
                /\ PositionKey(p[1], p[2]) # PositionKey(q[1], q[2])
                /\ layout_out.y_positions[PositionKey(p[1], p[2])]
                      # layout_out.y_positions[PositionKey(q[1], q[2])]

-----------------------------------------------------------------------------
(* Claims about the samplers (SpecSample) *)

Sampled == sample_out.fn # "none"

\* the time span is in a tier in which the called sampler reduces
ReducingTier ==
    \/ sample_out.fn = "apply_adaptive_sampling"
          /\ sample_in.time_span_hours > 24
    \/ sample_out.fn = "apply_enhanced_adaptive_sampling"
          /\ sample_in.time_span_hours > 48

\* the (route, movement) groups of the input
InputGroups == MovementGroups(sample_in.df.rows)

\* an output row as the input knows it: its input fields and its row label
AsInput(row) == [c \in SampleCols \cup {"index"} |-> row[c]]

OutputRows == {AsInput(sample_out.df.rows[j]) : j \in 1..Len(sample_out.df.rows)}

\* C3: in a reducing tier the output of either sampler contains, for every
\* circuit of a (route, movement) group of more than 20 events, the group's
\* earliest and its latest event on that circuit by down time, whatever the
\* row order of the input.
C3_KeepsEarliestLatest ==
    (Sampled /\ ReducingTier) =>
        LET groups == InputGroups
            output == OutputRows
        IN \A g \in 1..Len(groups) :
              Len(groups[g]) > GroupLimit =>
                  \A i \in 1..Len(groups[g]) :
                      LET event == groups[g][i]
                          same == RowsWhere(groups[g], "Circuit_Name",
                                            event["Circuit_Name"])
                      IN (\/ event["Down_timestamp"] = MinOf(same, "Down_timestamp")
                          \/ event["Down_timestamp"] = MaxOf(same, "Down_timestamp"))
                         => \E kept \in output :
                               /\ kept["Circuit_Name"] = event["Circuit_Name"]
                               /\ kept["Movement_id"] = event["Movement_id"]
                               /\ kept["Route_id"] = event["Route_id"]
                               /\ kept["Down_timestamp"] = event["Down_timestamp"]

\* C9: in every tier a (route, movement) group of at most 20 events passes
\* through either sampler whole: each of its events is in the output exactly
\* once, with every field value as it was.
C9_SmallGroupsKept ==
    Sampled =>
        LET groups == InputGroups
            output == [j \in 1..Len(sample_out.df.rows) |->
                          AsInput(sample_out.df.rows[j])]
        IN \A g \in 1..Len(groups) :
              Len(groups[g]) <= GroupLimit =>
                  \A i \in 1..Len(groups[g]) :
                      Cardinality({j \in 1..Len(output) :
                                      output[j] = groups[g][i]}) = 1

\* a movement of two events stood next to a large group that lost events in
\* a reducing tier
C9_Witness ==
    /\ Sampled
    /\ ReducingTier
    /\ LET groups == InputGroups
           output == OutputRows
       IN /\ \E g \in 1..Len(groups) : Len(groups[g]) = 2
          /\ \E g \in 1..Len(groups) :
                /\ Len(groups[g]) > GroupLimit
                /\ \E i \in 1..Len(groups[g]) : groups[g][i] \notin output

-----------------------------------------------------------------------------
(* Specification of the size of the stratified sample drawn from the        *)
(* non-critical rows of one group, as a function of their timestamps        *)

coreVars == <<uploads, clock, fileTypeCache, routeCircuitsCache, request, afterClear,
              circuit_data, movement_times, firstSeen, unified_in,
              unified_out>>

\* rows first..last share one Down_timestamp; an empty run if first > last
TieRun(first, last) == <<first, last>>

\* the Down_timestamp values of 1000 rows in ascending order: row i has the
\* timestamp i, the rows of a tie run that of the first row of the run
TiedValues(runs) ==
    [i \in 1..1000 |->
        IF \E r \in runs : r[1] <= i /\ i <= r[2]
        THEN (CHOOSE r \in runs : r[1] <= i /\ i <= r[2])[1]
        ELSE i]

\* events per tie run around a decile of the group: none, 6 or 14
TieWidths == {0, 3, 7}

\* timestamps without ties, with tie runs around some of the odd deciles,
\* and with one run that spans two deciles
RemainingValues ==
    {TiedValues({TieRun(100 * k - w + 1, 100 * k + w) : k \in deciles}) :
        deciles \in SUBSET {1, 3, 5, 7, 9}, w \in TieWidths}
    \cup {TiedValues({TieRun(95, 205)})}

\* spans of the 1 month strategy
MonthSpans == {169, 720}

\* lines 442-461 of apply_enhanced_adaptive_sampling for one group
SampleRemaining ==
    /\ plot_in.fn = "strat_sampled"
    /\ plot_out.fn = "none"
    /\ plot_out' = [fn |-> "strat_sampled",
                    sampled |-> StratSampledSize(plot_in.values,
                        SamplingStrategy(plot_in.time_span_hours).sample_rate)]
    /\ UNCHANGED <<trainVars, coreVars, sample_in, sample_out, layout_in, layout_out,
                   plot_in, collect_in, collect_out>>

InitRate ==
    /\ AnimationIdle
    /\ PipelineIdle
    /\ SamplerIdle
    /\ LayoutIdle
    /\ CollectIdle
    /\ \E values \in RemainingValues, span \in MonthSpans :
          plot_in = [fn |-> "strat_sampled", values |-> values,
                     time_span_hours |-> span]
    /\ plot_out = [fn |-> "none"]

NextRate == SampleRemaining

SpecRate == InitRate /\ [][NextRate]_vars

-----------------------------------------------------------------------------
(* Claims about the sample size (SpecRate) *)

\* C11: in the 1 month strategy, of 1000 non-critical points of a group the
\* sampler retains between 149 and 151, on the stratified path and on the
\* fallback path alike
C11_RetainedNear150 ==
    plot_out.fn = "strat_sampled" =>
        /\ 149 <= plot_out.sampled.size
        /\ plot_out.sampled.size <= 151

\* without ties among the timestamps, and on the fallback path, 150 points
\* are retained
C11_DistinctOrFallback ==
    (/\ plot_out.fn = "strat_sampled"
     /\ \/ ~plot_out.sampled.stratified
        \/ \A i \in 1..999 : plot_in.values[i] < plot_in.values[i + 1])
        => plot_out.sampled.size = 150

-----------------------------------------------------------------------------
(* Claims about the caches (Spec) *)

\* the type of every uploaded file as its present header classifies it
CurrentTypes ==
    [p \in DOMAIN uploads |-> ClassifyColumns(uploads[p].content.cols)]

\* C12: clear_cache leaves both caches empty, and the read that follows it
\* (get_route_circuits, or the classification done by a correlator call)
\* holds only what the present uploads give: the route sequences of the
\* newest route chart and the types of the present files
C12_FreshAfterClear ==
    [][/\ request'.fn = "clear_cache" =>
            /\ routeCircuitsCache' = EmptyDict
            /\ fileTypeCache' = EmptyCache
       /\ (request.fn = "clear_cache" /\ request'.fn = "get_route_circuits") =>
            /\ routeCircuitsCache' = LoadRouteCircuits(CurrentTypes, uploads)
            /\ \A p \in DOMAIN fileTypeCache' :
                  p \in DOMAIN uploads /\ fileTypeCache'[p] = CurrentTypes[p]
       /\ (/\ request.fn = "clear_cache"
           /\ request'.fn \in {"get_circuit_data", "calculate_movement_times"}) =>
            fileTypeCache' = CurrentTypes]_vars

\* get_route_circuits has run right after a clear_cache that dropped a
\* loaded registry, and has loaded the sequences of a chart uploaded later
C12_Witness ==
    /\ afterClear
    /\ request.fn = "get_route_circuits"
    /\ routeCircuitsCache = RouteCircuitsOf(ReadCsv(OtherRouteChart))
    /\ RoutePath \in DOMAIN fileTypeCache

-----------------------------------------------------------------------------
(* Claims about failure handling (SpecCorrelate) *)

\* no route chart together with a circuit table is uploaded
NoSourceTables ==
    ~(\E p, q \in DOMAIN uploads :
         /\ CurrentTypes[p] = "route_chart"
         /\ CurrentTypes[q] = "circuit_data")

\* the source events that are well-formed and inside the requested window
UsableEvents ==
    SelectRows(SourceEvents, LAMBDA row :
        /\ ~Malformed(row)
        /\ \/ request.from_time = NoTime
           \/ /\ row["Down_timestamp"] >= request.from_time
              /\ row["Up_timestamp"] <= request.to_time)

\* C13: get_circuit_data and calculate_movement_times return and do not
\* raise, and they return an empty collection when no route chart and
\* circuit table pair is uploaded, when the route matches no tier, and when
\* malformed records and the window leave no event
C13_NeverRaises ==
    Correlated =>
        /\ ~IsRaised(circuit_data)
        /\ (\/ NoSourceTables
            \/ TierMatch(StoredRouteIds, Strip(request.route)) = {}
            \/ UsableEvents = <<>>)
           => circuit_data = EmptyDataFrame /\ movement_times = <<>>

\* a call whose try block raised an exception that only the outer handler
\* answers: the route matches a chart row, the events are well-formed, and
\* the result is empty
C13_Witness ==
    /\ Correlated
    /\ ~NoSourceTables
    /\ TierMatch(StoredRouteIds, Strip(request.route)) # {}
    /\ UsableEvents # <<>>
    /\ IsRaised(GetCircuitDataTry(EmptyCache, uploads, request.route,
                                  request.from_time, request.to_time))
    /\ circuit_data = EmptyDataFrame
    /\ movement_times = <<>>

-----------------------------------------------------------------------------
(* Specification of the sampling generate_plot applies, as a function of    *)
(* the number of rows and the time span of its DataFrame                    *)

SamplingThreshold == 5000    \* generate_plot samples above 5000 rows

\* generate_plot, lines 716-731: the sampler it calls and the strategy that
\* sampler follows
SamplingOf(row_count, time_span_hours) ==
    IF row_count > SamplingThreshold
    THEN IF time_span_hours > 24
         THEN [sampler |-> "apply_enhanced_adaptive_sampling",
               strategy |-> SamplingStrategy(time_span_hours)]
         ELSE [sampler |-> "apply_adaptive_sampling",
               strategy |-> AdaptiveStrategy(time_span_hours)]
    ELSE [sampler |-> "none", strategy |-> NoSampling]

RowCounts == {1, 5000, 5001, 20001}

PlotSpans == {0, 1, 24, 25, 36, 48, 49, 100, 168, 169, 500, 720, 721, 1000}

\* the sampling step of generate_plot
ChooseSampling ==
    /\ plot_in.fn = "sampling"
    /\ plot_out.fn = "none"
    /\ plot_out' = [fn |-> "sampling",
                    sampling |-> SamplingOf(plot_in.row_count,
                                            plot_in.time_span_hours)]
    /\ UNCHANGED <<trainVars, coreVars, sample_in, sample_out, layout_in, layout_out,
                   plot_in, collect_in, collect_out>>

InitSampling ==
    /\ AnimationIdle
    /\ PipelineIdle
    /\ SamplerIdle
    /\ LayoutIdle
    /\ CollectIdle
    /\ \E row_count \in RowCounts, span \in PlotSpans :
          plot_in = [fn |-> "sampling", row_count |-> row_count,
                     time_span_hours |-> span]
    /\ plot_out = [fn |-> "none"]

NextSampling == ChooseSampling

SpecSampling == InitSampling /\ [][NextSampling]_vars

-----------------------------------------------------------------------------
(* Claims about the sampling tiers (SpecSampling) *)

\* the tier the time span alone selects: retention rate and critical window
TierOfSpan(time_span_hours) ==
    IF time_span_hours <= 24 THEN NoSampling
    ELSE IF time_span_hours <= 168
    THEN [reduces |-> TRUE, sample_rate |-> [num |-> 3, den |-> 10],
          critical_window |-> 3]
    ELSE IF time_span_hours <= 720
    THEN [reduces |-> TRUE, sample_rate |-> [num |-> 3, den |-> 20],
          critical_window |-> 2]
    ELSE [reduces |-> TRUE, sample_rate |-> [num |-> 1, den |-> 20],
          critical_window |-> 1]

\* C14: the sampling applied to an event set large enough to be sampled is
\* the tier of its time span: none up to 24 h, 30% with critical window 3 up
\* to 168 h, 15% with window 2 up to 720 h, 5% with window 1 beyond
C14_TierBySpan ==
    (plot_out.fn = "sampling" /\ plot_in.row_count > SamplingThreshold) =>
        plot_out.sampling.strategy = TierOfSpan(plot_in.time_span_hours)

\* outside the spans from 24 h to 48 h the sampled event sets get the tier
\* of their span
C14_TierOutsideSecondDay ==
    (/\ plot_out.fn = "sampling"
     /\ plot_in.row_count > SamplingThreshold
     /\ ~(24 < plot_in.time_span_hours /\ plot_in.time_span_hours <= 48)) =>
        plot_out.sampling.strategy = TierOfSpan(plot_in.time_span_hours)

-----------------------------------------------------------------------------
(* Claims about the time window (SpecCorrelate) *)

InsideWindow(row) ==
    /\ request.from_time <= row["Down_timestamp"]
    /\ row["Up_timestamp"] <= request.to_time

\* the index labels of the rows of a result
IndexLabels(rows) == {rows[i]["index"] : i \in 1..Len(rows)}

\* the circuits of the chart row the requested route matches
MatchedCircuits ==
    LET route_info == RouteInfo(
            NormaliseRouteIds(ReadCsv(uploads[RoutePath].content)).rows,
            Strip(request.route)).rows
    IN IF route_info = <<>> THEN {}
       ELSE Range(CircuitIds(route_info[1]["Route_circuit"]))

-----------------------------------------------------------------------------
(* Claims about route ownership (SpecCorrelate) *)

\* C16: every event get_circuit_data returns for a route carries the id of
\* the route the request matched (as stored in the chart, or as requested)
\* and no event carrying the id of another route is returned; also when the
\* circuit table has a Route_id column of its own and when routes share
\* circuits
C16_RouteOwnership ==
    /\ Correlated =>
          \A i \in 1..Len(circuit_data.rows) :
              circuit_data.rows[i]["Route_id"]
                  \in TierMatch(StoredRouteIds, Strip(request.route))
                      \cup {Strip(request.route)}
    /\ request.fn = "combined" =>
          \A i \in 1..Len(unified_out.rows) :
              unified_out.rows[i]["Route_id"]
                  \in TierMatch(UnifiedRouteIds, Strip(request.route))

\* for circuit tables without a Route_id column every returned event carries
\* the requested route id
C16_StampedWhenAbsent ==
    (/\ Correlated
     /\ CircuitPath \in DOMAIN uploads
     /\ "Route_id" \notin uploads[CircuitPath].content.cols) =>
        \A i \in 1..Len(circuit_data.rows) :
            circuit_data.rows[i]["Route_id"] = Strip(request.route)

-----------------------------------------------------------------------------
(* plot_movement_analysis.py: add_movement_elements.  Heights are kept in   *)
(* hundredths of a lane unit, as in calculate_y_positions.                  *)

CircuitHeight == 70       \* CIRCUIT_HEIGHT = 0.7
GlowMargin == 10          \* the highlight reaches 0.1 beyond the rectangle
DownSampleAbove == 200    \* a movement of more than 200 rows is down-sampled
SkipAbove == 500          \* low detail: more than 500 rows get one shape
ScatterPoints == 10       \* and about 10 hover points

\* dict.get(key, default)
DictGet(d, key, default) == IF key \in DOMAIN d THEN d[key] ELSE default

\* dict(df.drop_duplicates([Movement_id, Route_id])[[Movement_id,
\* Route_id]].values): of the distinct (movement, route) pairs in frame
\* order the last one of a movement decides its route
MovementToRoute(rows) ==
    LET firsts == {i \in 1..Len(rows) : \A j \in 1..(i - 1) :
                      \/ rows[j]["Movement_id"] # rows[i]["Movement_id"]
                      \/ rows[j]["Route_id"] # rows[i]["Route_id"]}
    IN [m \in {rows[i]["Movement_id"] : i \in 1..Len(rows)} |->
          rows[CHOOSE i \in firsts :
                   /\ rows[i]["Movement_id"] = m
                   /\ \A j \in firsts :
                         rows[j]["Movement_id"] = m => j <= i]["Route_id"]]

\* the hover marker of a row: the middle of its interval, the middle of the
\* lane, and the text fields
HoverMarker(row, movement_id, route_id, y_pos) ==
    [x |-> [num |-> row["Down_timestamp"] + row["Up_timestamp"], den |-> 2],
     y |-> y_pos + CircuitHeight \div 2,
     index |-> row["index"],
     text |-> [Movement_id |-> movement_id, Route |-> route_id,
               Circuit |-> row["Circuit_Name"],
               Down |-> row["Down_timestamp"], Up |-> row["Up_timestamp"],
               Duration |-> row["duration_seconds"]]]

\* the shapes of a row: in full detail a highlight below the main rectangle.
\* index names the row a shape was drawn for.
RowShapes(row, route_id, y_pos, low_detail_mode) ==
    (IF low_detail_mode THEN <<>>
     ELSE <<[kind |-> "highlight", index |-> row["index"],
             x0 |-> row["Down_timestamp"], x1 |-> row["Up_timestamp"],
             y0 |-> y_pos - GlowMargin,
             y1 |-> y_pos + CircuitHeight + GlowMargin,
             fill |-> "highlight"]>>)
    \o <<[kind |-> "main", index |-> row["index"],
          x0 |-> row["Down_timestamp"], x1 |-> row["Up_timestamp"],
          y0 |-> y_pos, y1 |-> y_pos + CircuitHeight, fill |-> route_id]>>

\* the sets of k elements of S that a draw can leave out
LeftOut(S, k) ==
    IF k = 1 THEN {{i} : i \in S} ELSE KSubsets(S, k)

\* set(np.random.choice(range(1, n - 1), size, replace=False)) with 0 and
\* n - 1 added: the possible sets of row positions; none if the sample is
\* larger than the range, which is a ValueError.  size is
\* int(min(1.0, 200 / n) * n), which is 200 for the sizes drawn here.
SampledIndices(n) ==
    LET middle == 1..(n - 2)
        size == DownSampleAbove
    IN IF size > n - 2 THEN {}
       ELSE {(middle \ left) \cup {0, n - 1} :
                left \in LeftOut(middle, n - 2 - size)}

\* the rows of movement_data at the given positions (counted from 0), in
\* the order of movement_data
RowsAtPositions(movement_data, positions) ==
    LET n == Len(movement_data)
        upTo == [i \in 1..n |-> Cardinality({p \in positions : p < i})] \o <<>>
    IN [k \in 1..Cardinality(positions) |->
          movement_data[CHOOSE i \in 1..n :
                            (i - 1) \in positions /\ upTo[i] = k]] \o <<>>

\* the elements of one movement in the standard visualization, for the rows
\* at the given positions of movement_data
StandardElements(movement_data, positions, movement_id, route_id, y_positions, low_detail_mode) ==
    LET drawn == RowsAtPositions(movement_data, positions)
        per_row == IF low_detail_mode THEN 1 ELSE 2
        YPos(row) == DictGet(y_positions,
                             PositionKey(route_id, row["Circuit_Name"]), 0)
    IN [shapes |-> [k \in 1..(per_row * Len(drawn)) |->
                      LET row == drawn[(k + per_row - 1) \div per_row]
                      IN RowShapes(row, route_id, YPos(row), low_detail_mode)
                             [((k - 1) % per_row) + 1]],
        trace |-> [i \in 1..Len(drawn) |->
                      HoverMarker(drawn[i], movement_id, route_id,
                                  YPos(drawn[i]))]]

\* the elements of one movement that low detail mode skips: one shape from
\* its first down time to its last up time and every (n // 10)-th row as a
\* hover point
SkippedElements(movement_data, movement_id, route_id, y_positions) ==
    LET n == Len(movement_data)
        step == Max(1, n \div ScatterPoints)
        points == RowsAtPositions(movement_data,
                                  {p \in 0..(n - 1) : p % step = 0})
        YPos(row) == DictGet(y_positions,
                             PositionKey(route_id, row["Circuit_Name"]), 0)
        first_y == YPos(movement_data[1])
        last_y == YPos(movement_data[n])
    IN [shapes |-> <<[kind |-> "movement", index |-> -1,
                      x0 |-> MinOf(movement_data, "Down_timestamp"),
                      x1 |-> MaxOf(movement_data, "Up_timestamp"),
                      y0 |-> Min(first_y, last_y),
                      y1 |-> Max(first_y, last_y) + CircuitHeight,
                      fill |-> route_id]>>,
        trace |-> [i \in 1..Len(points) |->
                      HoverMarker(points[i], movement_id, route_id,
                                  YPos(points[i]))]]

\* df[df[Movement_id] == movement_id].sort_values("Down_timestamp")
MovementData(rows, movement_id) ==
    LET n == Len(rows)
        own == {i \in 1..n : rows[i]["Movement_id"] = movement_id}
        rank == [i \in 1..n |->
                    IF i \notin own THEN -1
                    ELSE Cardinality({j \in own :
                        \/ rows[j]["Down_timestamp"] < rows[i]["Down_timestamp"]
                        \/ /\ rows[j]["Down_timestamp"] = rows[i]["Down_timestamp"]
                           /\ j < i})] \o <<>>
    IN [p \in 1..Cardinality(own) |->
          rows[CHOOSE i \in own : rank[i] = p - 1]] \o <<>>

\* the possible elements of one movement; none if the down-sampling raises
MovementElements(movement_id, movement_to_route, rows, y_positions, low_detail_mode) ==
    LET route_id == DictGet(movement_to_route, movement_id,
                            <<"U", "n", "k", "n", "o", "w", "n">>)
        movement_data == MovementData(rows, movement_id)
        n == Len(movement_data)
    IN IF low_detail_mode /\ n > SkipAbove
       THEN {SkippedElements(movement_data, movement_id, route_id, y_positions)}
       ELSE IF n > DownSampleAbove
       THEN {StandardElements(movement_data, positions, movement_id, route_id,
                              y_positions, low_detail_mode) :
                positions \in SampledIndices(n)}
       ELSE {StandardElements(movement_data, 0..(n - 1), movement_id, route_id,
                              y_positions, low_detail_mode)}

\* all ways to draw the movements one after the other
RECURSIVE DrawMovements(_, _, _, _, _)
DrawMovements(movements, movement_to_route, rows, y_positions, low_detail_mode) ==
    IF movements = <<>> THEN {[shapes |-> <<>>, traces |-> <<>>]}
    ELSE {[shapes |-> e.shapes \o rest.shapes,
           traces |-> (IF e.trace = <<>> THEN <<>> ELSE <<e.trace>>)
                          \o rest.traces] :
             e \in MovementElements(Head(movements), movement_to_route, rows,
                                    y_positions, low_detail_mode),
             rest \in DrawMovements(Tail(movements), movement_to_route, rows,
                                    y_positions, low_detail_mode)}

\* add_movement_elements(fig, movements, movement_to_route, df, y_positions,
\* route_colors, low_detail_mode): the shape lists it can return with the
\* hover traces it adds to the figure; the empty set if it raises
AddMovementElementsOf(movements, movement_to_route, df, y_positions, low_detail_mode) ==
    DrawMovements(movements, movement_to_route, df.rows, y_positions,
                  low_detail_mode)

-----------------------------------------------------------------------------
(* plot_movement_analysis.py: the lines of generate_plot that prepare the   *)
(* arguments of add_movement_elements                                       *)

\* the arguments of add_movement_elements, given whether the extraction
\* raised and what calculate_y_positions returned
ArgumentsAfterLayout(df, low_detail_mode, extraction_raised, layout) ==
    [fn |-> "add_movement_elements",
     raised |-> extraction_raised \/ layout.raised,
     movements |-> SortedStrs({df.rows[i]["Movement_id"] : i \in 1..Len(df.rows)}),
     movement_to_route |-> MovementToRoute(df.rows),
     df |-> df,
     y_positions |-> IF extraction_raised \/ layout.raised THEN EmptyDict
                     ELSE layout.y_positions,
     low_detail_mode |-> low_detail_mode]

ArgumentsAfterExtraction(df, low_detail_mode, unique_routes, filled) ==
    ArgumentsAfterLayout(df, low_detail_mode, filled.raised,
        CalculateYPositionsOf(unique_routes, filled.route_circuits, df))

\* the routes, movements, movement-to-route mapping and lane positions that
\* generate_plot computes from df and from the dict of get_route_circuits
PlotArguments(df, loaded_circuits, low_detail_mode) ==
    LET unique_routes == SortedStrs({df.rows[i]["Route_id"] :
                                        i \in 1..Len(df.rows)})
    IN ArgumentsAfterExtraction(df, low_detail_mode, unique_routes,
           ExtractMissing(SelectSeq(unique_routes,
                              LAMBDA r : r \notin DOMAIN loaded_circuits),
                          loaded_circuits, df))

-----------------------------------------------------------------------------
(* Specification of add_movement_elements as a function of the arguments    *)
(* generate_plot passes to it                                               *)

MaxDrawn == 2        \* events of a small frame

RenderRoutes == {<<"R", "1">>, <<"R", "2">>}

RenderMovements == {<<"M", "1">>, <<"M", "2">>}

RenderTimings == {<<1, 3>>, <<2, 5>>}

\* the registered sequences: both routes run over the same two circuits, in
\* opposite directions
RenderCircuits ==
    (<<"R", "1">> :> <<<<"A">>, <<"B">>>>) @@ (<<"R", "2">> :> <<<<"B">>, <<"A">>>>)

RenderEvent(route, movement, circuit, t) ==
    [Route_id |-> route, Movement_id |-> movement, Circuit_Name |-> circuit,
     Down_time |-> <<"time", t[1]>>, Down_timestamp |-> t[1],
     Up_timestamp |-> t[2],
     duration_seconds |-> t[2] - t[1]]

RenderEvents ==
    {RenderEvent(r, m, c, t) : r \in RenderRoutes, m \in RenderMovements,
                               c \in {<<"A">>, <<"B">>}, t \in RenderTimings}

RenderCols ==
    {"Route_id", "Movement_id", "Circuit_Name", "Down_time", "Down_timestamp",
     "Up_timestamp", "duration_seconds"}

\* a frame of the given events, labelled 0, 1, ...
RenderFrame(events) ==
    [cols |-> RenderCols,
     rows |-> [i \in 1..Len(events) |-> events[i] @@ ("index" :> i - 1)]]

SmallFrames ==
    {RenderFrame(events) : events \in SeqsUpTo(RenderEvents, MaxDrawn) \ {<<>>}}

\* one movement of n events that follow each other over the two circuits
LongMovement(n) ==
    RenderFrame([i \in 1..n |->
        RenderEvent(<<"R", "1">>, <<"M", "1">>,
                    IF i % 2 = 1 THEN <<"A">> ELSE <<"B">>, <<i, i + 1>>)])

LongSizes == {201, 202, 203}

SkippedSizes == {501}

\* what a call of add_movement_elements can end with: the exception, or
\* one of the shape lists with its hover traces
RenderResults(outcomes) ==
    IF outcomes = {}
    THEN {[fn |-> "add_movement_elements", raised |-> TRUE,
           shapes |-> <<>>, traces |-> <<>>]}
    ELSE {[fn |-> "add_movement_elements", raised |-> FALSE,
           shapes |-> o.shapes, traces |-> o.traces] : o \in outcomes}

AddMovementElements ==
    /\ plot_in.fn = "add_movement_elements"
    /\ plot_out.fn = "none"
    /\ plot_out' \in RenderResults(AddMovementElementsOf(plot_in.movements,
                           plot_in.movement_to_route, plot_in.df,
                           plot_in.y_positions, plot_in.low_detail_mode))
    /\ UNCHANGED <<trainVars, uploads, clock, fileTypeCache, routeCircuitsCache, request,
                   afterClear, circuit_data, movement_times, firstSeen,
                   unified_in, unified_out, sample_in, sample_out, layout_in,
                   layout_out, plot_in, collect_in, collect_out>>

\* the frames with the detail mode they are drawn in: a movement of more
\* than 500 events only in low detail
RenderInputs ==
    ((SmallFrames \cup {LongMovement(n) : n \in LongSizes}) \X BOOLEAN)
    \cup {<<LongMovement(n), TRUE>> : n \in SkippedSizes}

InitRender ==
    /\ AnimationIdle
    /\ PipelineIdle
    /\ SamplerIdle
    /\ LayoutIdle
    /\ CollectIdle
    /\ \E input \in RenderInputs :
          plot_in = PlotArguments(input[1], RenderCircuits, input[2])
    /\ ~plot_in.raised
    /\ plot_out = [fn |-> "none"]

NextRender == AddMovementElements

SpecRender == InitRender /\ [][NextRender]_vars

-----------------------------------------------------------------------------
(* Claims about add_movement_elements *)

\* the labels of the events for which a shape of the kind was drawn
DrawnFor(kind) ==
    {plot_out.shapes[k].index :
        k \in {j \in 1..Len(plot_out.shapes) : plot_out.shapes[j].kind = kind}}

NumberOf(kind) ==
    Cardinality({k \in 1..Len(plot_out.shapes) : plot_out.shapes[k].kind = kind})

\* the labels of the events for which a hover marker was drawn
MarkedEvents ==
    UNION {{plot_out.traces[t][k].index : k \in 1..Len(plot_out.traces[t])} :
              t \in 1..Len(plot_out.traces)}

NumberOfMarkers == Total([t \in 1..Len(plot_out.traces) |-> Len(plot_out.traces[t])])

\* the labels of the events of the frame, which are distinct
EventLabels == {plot_in.df.rows[i]["index"] : i \in 1..Len(plot_in.df.rows)}

\* the event with a label: RenderFrame labels its rows 0, 1, ...
EventLabelled(index) == plot_in.df.rows[index + 1]

Rendered == plot_out.fn = "add_movement_elements"

\* C17: every interval rectangle that add_movement_elements draws for an
\* event spans x from the event's down time to its up time and y from L to
\* L + 0.7, where L is the lane position of the event's own route and
\* circuit, whatever movement ids the events of different routes carry.
C17_RectangleInOwnLane ==
    (Rendered /\ ~plot_out.raised) =>
        \A k \in 1..Len(plot_out.shapes) :
            LET shape == plot_out.shapes[k]
                row == EventLabelled(shape.index)
                own == PositionKey(row["Route_id"], row["Circuit_Name"])
            IN (shape.kind = "main" /\ own \in DOMAIN plot_in.y_positions) =>
                  /\ shape.x0 = row["Down_timestamp"]
                  /\ shape.x1 = row["Up_timestamp"]
                  /\ shape.y0 = plot_in.y_positions[own]
                  /\ shape.y1 = plot_in.y_positions[own] + CircuitHeight

\* C17 on frames in which no movement id is shared by two routes
C17_OwnLaneOfDistinctMovements ==
    (Rendered /\ ~plot_out.raised
       /\ \A i, j \in 1..Len(plot_in.df.rows) :
             plot_in.df.rows[i]["Movement_id"] = plot_in.df.rows[j]["Movement_id"]
                => plot_in.df.rows[i]["Route_id"] = plot_in.df.rows[j]["Route_id"])
    => C17_RectangleInOwnLane

\* C18: in full-detail mode add_movement_elements emits, for every event of
\* the frame and for movements of any size, exactly one main rectangle, one
\* highlight rectangle and one hover marker.
C18_OneOfEachPerEvent ==
    (Rendered /\ ~plot_in.low_detail_mode) =>
        /\ DrawnFor("main") = EventLabels
        /\ NumberOf("main") = Cardinality(EventLabels)
        /\ DrawnFor("highlight") = EventLabels
        /\ NumberOf("highlight") = Cardinality(EventLabels)
        /\ MarkedEvents = EventLabels
        /\ NumberOfMarkers = Cardinality(EventLabels)

\* C18 on frames of at most 200 events
C18_OneOfEachUpTo200 ==
    (Rendered /\ Len(plot_in.df.rows) <= DownSampleAbove)
        => C18_OneOfEachPerEvent

-----------------------------------------------------------------------------
(* Claims about the route-sequence cache *)

\* the sequences declared in the uploaded route table
DeclaredCircuits == LoadRouteCircuits(fileTypeCache, uploads)

\* C19: the route-sequence cache changes only through a load from the route
\* table in get_route_circuits or through clear_cache; no correlate, sample,
\* layout or render call adds, removes or alters a cached entry.
C19_OnlyLoadOrClear ==
    [][routeCircuitsCache' # routeCircuitsCache =>
          \/ routeCircuitsCache' = EmptyDict
          \/ /\ routeCircuitsCache = EmptyDict
             /\ routeCircuitsCache' = LoadRouteCircuits(fileTypeCache, uploads)]_vars

\* C19, the cache by its content: it holds only declared sequences
C19_OnlyDeclaredSequences ==
    routeCircuitsCache \in {EmptyDict, DeclaredCircuits}

\* C19 for every call but generate_plot
C19_OtherCallsLoadOrClear ==
    [][(routeCircuitsCache' # routeCircuitsCache
            /\ request'.fn # "generate_plot") =>
          \/ routeCircuitsCache' = EmptyDict
          \/ /\ routeCircuitsCache = EmptyDict
             /\ routeCircuitsCache' = LoadRouteCircuits(fileTypeCache, uploads)]_vars

-----------------------------------------------------------------------------
(* routes_movement_analysis.py: _parse_time_range, _collect_route_data *)

ChunkDays == 3            \* chunk_size = pd.Timedelta(days=3)
ChunkedAboveDays == 7     \* a span of more than 7 days is chunked

\* _parse_time_range(data), from_time and to_time being the instants the two
\* texts of the request parse to (NoTime: the text is missing or empty)
ParseTimeRange(from_text, to_text) ==
    IF from_text # NoTime /\ to_text # NoTime
    THEN [from_time |-> from_text, to_time |-> to_text,
          chunked_processing |->
              to_text - from_text > ChunkedAboveDays * SecondsPerDay]
    ELSE [from_time |-> NoTime, to_time |-> NoTime, chunked_processing |-> FALSE]

\* the (current_start, current_end) pairs of the while loop
RECURSIVE Chunks(_, _)
Chunks(current_start, to_time) ==
    IF ~(current_start < to_time) THEN <<>>
    ELSE LET current_end == Min(current_start + ChunkDays * SecondsPerDay,
                                to_time)
         IN <<<<current_start, current_end>>>> \o Chunks(current_end, to_time)

\* pd.concat([combined_df, df]): a column one frame lacks is filled with NaN
ConcatFrames(combined_df, df) ==
    LET cols == combined_df.cols \cup df.cols
        rows == combined_df.rows \o df.rows
    IN [cols |-> cols,
        rows |-> [i \in 1..Len(rows) |->
                     [c \in cols \cup {"index"} |->
                         IF c \in DOMAIN rows[i] THEN rows[i][c] ELSE NaNCell]]]

\* the frames of get_circuit_data that are not empty, concatenated in turn
RECURSIVE ConcatNonEmpty(_, _)
ConcatNonEmpty(combined_df, frames) ==
    IF frames = <<>> THEN combined_df
    ELSE ConcatNonEmpty(IF Head(frames).rows = <<>> THEN combined_df
                        ELSE ConcatFrames(combined_df, Head(frames)),
                        Tail(frames))

\* _collect_route_data(routes, from_time, to_time, chunked_processing):
\* combined_df
CollectRouteDataOf(cache, files, routes, from_time, to_time, chunked_processing) ==
    LET PerRoute(window) ==
            [r \in 1..Len(routes) |->
                GetCircuitDataOf(cache, files, routes[r], window[1], window[2])]
        chunks == Chunks(from_time, to_time)
    IN IF chunked_processing
       THEN ConcatNonEmpty(EmptyDataFrame,
                Flatten([k \in 1..Len(chunks) |-> PerRoute(chunks[k])]))
       ELSE ConcatNonEmpty(EmptyDataFrame, PerRoute(<<from_time, to_time>>))

\* the request handlers' _parse_time_range and _collect_route_data
CollectRouteData ==
    /\ ~collect_out.done
    /\ collect_in.routes # <<>>
    /\ LET range == ParseTimeRange(collect_in.from_time, collect_in.to_time)
       IN collect_out' =
            [done |-> TRUE,
             from_time |-> range.from_time, to_time |-> range.to_time,
             chunked_processing |-> range.chunked_processing,
             chunks |-> IF range.chunked_processing
                        THEN Chunks(range.from_time, range.to_time) ELSE <<>>,
             combined_df |-> CollectRouteDataOf(fileTypeCache, uploads,
                                 collect_in.routes, range.from_time,
                                 range.to_time, range.chunked_processing)]
    /\ fileTypeCache' = CacheAfterScan(fileTypeCache, uploads)
    /\ UNCHANGED <<trainVars, uploads, clock, routeCircuitsCache, request, afterClear,
                   circuit_data, movement_times, firstSeen, unified_in,
                   unified_out, sample_in, sample_out, layout_in, layout_out,
                   plot_in, plot_out, collect_in>>

-----------------------------------------------------------------------------
(* Specification of the collection as a function of the request and of the  *)
(* circuit table                                                            *)

MaxCollected == 2     \* events of the circuit table

Day(n) == n * SecondsPerDay

\* (Down, Up) in days: inside the first chunk, ending at its end, across the
\* first boundary, beginning at it, ending at the second boundary, and inside
\* the last chunk of a window that begins on day 1
CollectTimings ==
    {<<2, 3>>, <<3, 4>>, <<3, 5>>, <<4, 6>>, <<6, 7>>, <<8, 9>>}

CollectEvents ==
    {[Circuit_Name |-> c, Down_timestamp |-> Ts(Day(t[1])),
      Up_timestamp |-> Ts(Day(t[2])), Movement_id |-> <<"M", "1">>] :
        c \in CircuitNames, t \in CollectTimings}

CollectTables ==
    {[cols |-> {"Circuit_Name", "Down_timestamp", "Up_timestamp", "Movement_id"},
      rows |-> rows] : rows \in SeqsUpTo(CollectEvents, MaxCollected) \ {<<>>}}

\* no window, a window of exactly 7 days, and windows of 8 and 9 days
CollectWindows ==
    {<<NoTime, NoTime>>, <<Day(1), NoTime>>, <<Day(1), Day(8)>>,
     <<Day(1), Day(9)>>, <<Day(1), Day(10)>>}

CollectRoutes == {<<<<"0", "0", "7">>>>, <<<<"0", "0", "7">>, <<"0", "0">>>>}

InitCollect ==
    /\ AnimationIdle
    /\ \E track \in CollectTables : uploads = Folder(TheRouteChart, track)
    /\ clock = 2
    /\ fileTypeCache = EmptyCache
    /\ routeCircuitsCache = EmptyDict
    /\ request = NoRequest
    /\ afterClear = FALSE
    /\ circuit_data = EmptyDataFrame
    /\ movement_times = <<>>
    /\ firstSeen = NoCall
    /\ unified_in = NoTable
    /\ unified_out = EmptyDataFrame
    /\ SamplerIdle
    /\ LayoutIdle
    /\ PlotIdle
    /\ \E routes \in CollectRoutes, w \in CollectWindows :
          collect_in = [routes |-> routes, from_time |-> w[1], to_time |-> w[2]]
    /\ collect_out = [done |-> FALSE]

NextCollect == CollectRouteData

SpecCollect == InitCollect /\ [][NextCollect]_vars

-----------------------------------------------------------------------------
(* Claims about the chunked collection *)

\* an event of a frame: its route, the label of its row in the circuit
\* table, its circuit and its interval
EventOf(row) ==
    <<row["Route_id"], row["index"], row["Circuit_Name"],
      row["Down_timestamp"], row["Up_timestamp"]>>

\* how often an event occurs in a frame
Occurrences(df, event) ==
    Cardinality({i \in 1..Len(df.rows) : EventOf(df.rows[i]) = event})

\* what one correlation of each route over the whole window returns
WholeWindow ==
    CollectRouteDataOf(fileTypeCache, uploads, collect_in.routes,
                       collect_out.from_time, collect_out.to_time, FALSE)

Chunked == collect_out.done /\ collect_out.chunked_processing

\* the sub-windows follow each other, none is longer than 3 days, and
\* together they cover the window from from_time to to_time
TilesWindow(chunks) ==
    /\ chunks # <<>>
    /\ chunks[1][1] = collect_out.from_time
    /\ chunks[Len(chunks)][2] = collect_out.to_time
    /\ \A k \in 1..Len(chunks) :
          /\ chunks[k][1] < chunks[k][2]
          /\ chunks[k][2] - chunks[k][1] <= ChunkDays * SecondsPerDay
          /\ k < Len(chunks) => chunks[k][2] = chunks[k + 1][1]

\* C20: for a window longer than 7 days _collect_route_data splits the window
\* into consecutive sub-windows of at most 3 days that tile it, and the
\* concatenated per-chunk results contain exactly the events of one
\* correlation over the whole window: none is lost and none appears twice.
C20_ChunksEqualWhole ==
    Chunked =>
        /\ TilesWindow(collect_out.chunks)
        /\ LET whole == WholeWindow
           IN \A event \in {EventOf(whole.rows[i]) : i \in 1..Len(whole.rows)}
                     \cup {EventOf(collect_out.combined_df.rows[i]) :
                              i \in 1..Len(collect_out.combined_df.rows)} :
                 Occurrences(collect_out.combined_df, event)
                     = Occurrences(whole, event)

\* C20, the half that holds: the sub-windows tile the window and the
\* chunked result holds no event twice and none the whole window lacks
C20_ChunksWithinWhole ==
    Chunked =>
        /\ TilesWindow(collect_out.chunks)
        /\ LET whole == WholeWindow
           IN \A i \in 1..Len(collect_out.combined_df.rows) :
                 LET event == EventOf(collect_out.combined_df.rows[i])
                 IN /\ Occurrences(collect_out.combined_df, event) = 1
                    /\ Occurrences(whole, event) = 1

-----------------------------------------------------------------------------
(* Specification of the correlator on folders that hold a unified table:    *)
(* one get_circuit_data call on each folder                                 *)

\* an uploads folder holding one table and no route chart
TableOnlyFolder(track) == (CircuitPath :> [content |-> track, mtime |-> 2])

InitSources ==
    /\ AnimationIdle
    /\ \E unified \in UnifiedTables :
          \/ uploads = TableOnlyFolder(unified)
          \/ uploads = Folder(TheRouteChart, unified)
    /\ clock = 2
    /\ fileTypeCache = EmptyCache
    /\ routeCircuitsCache = EmptyDict
    /\ request = NoRequest
    /\ afterClear = FALSE
    /\ circuit_data = EmptyDataFrame
    /\ movement_times = <<>>
    /\ firstSeen = NoCall
    /\ unified_in = NoTable
    /\ unified_out = EmptyDataFrame
    /\ OtherInputsIdle

NextSources ==
    /\ request = NoRequest
    /\ \E route \in {<<"0", "0", "7">>, <<"r", "1">>}, w \in Windows :
          GetCircuitData(route, w[1], w[2])

SpecSources == InitSources /\ [][NextSources]_vars

-----------------------------------------------------------------------------
(* Claims about the source layouts (SpecSources) *)

FileTypes == {"route_chart", "circuit_data", "unified", "unknown"}

\* a table that carries route id, circuit id, timestamps and movement id
IsUnified(content) ==
    /\ {"Route_id", "Movement_id", "Down_timestamp", "Up_timestamp"}
           \subseteq content.cols
    /\ content.cols \cap {"Circuit_Name", "Circuit"} # {}

\* the uploaded unified tables
UnifiedUploads == {p \in DOMAIN uploads : IsUnified(uploads[p].content)}

\* C21: every uploaded table is classified as one of route_chart,
\* circuit_data, unified, unknown, and whenever a unified table is among the
\* sources get_circuit_data returns what the unified layout returns: that
\* table's rows filtered by route id directly.
C21_UnifiedLayoutTaken ==
    /\ \A p \in DOMAIN uploads :
          ClassifyColumns(uploads[p].content.cols) \in FileTypes
    /\ request.fn = "get_circuit_data" =>
          \A p \in UnifiedUploads :
              circuit_data = CombinedLayout(uploads[p].content,
                                 Strip(request.route), request.from_time,
                                 request.to_time)

\* C21, the half that holds: the classification is one of the names, and a
\* unified table is classified circuit_data
C21_UnifiedIsCircuitData ==
    \A p \in DOMAIN uploads :
        /\ ClassifyColumns(uploads[p].content.cols) \in FileTypes
        /\ IsUnified(uploads[p].content) =>
              ClassifyColumns(uploads[p].content.cols) = "circuit_data"

-----------------------------------------------------------------------------
(* Claims about movement ids and order (SpecCorrelate) *)

\* every row of the frame carries a movement id and an order
CarriesMovementAndOrder(df) ==
    df.rows # <<>> => {"Movement_id", "order"} \subseteq df.cols

\* order numbers the events of each movement 0, 1, 2, ... by ascending down
\* time
NumberedByDownTime(df) ==
    \A i \in 1..Len(df.rows) :
        LET movement == {j \in 1..Len(df.rows) :
                df.rows[j]["Movement_id"] = df.rows[i]["Movement_id"]}
        IN /\ {df.rows[j]["order"] : j \in movement}
                  = 0..(Cardinality(movement) - 1)
           /\ \A j \in movement :
                 df.rows[i]["Down_timestamp"] < df.rows[j]["Down_timestamp"]
                     => df.rows[i]["order"] < df.rows[j]["order"]

\* C22: every event get_circuit_data returns carries a movement id and an
\* order; when the source has a movement id column, order numbers the events
\* of each movement 0, 1, 2, ... by ascending down time, and when it has
\* none the events carry a synthetic movement id.
C22_OrderPerMovement ==
    /\ Correlated =>
          /\ CarriesMovementAndOrder(circuit_data)
          /\ (/\ circuit_data.rows # <<>>
              /\ "Movement_id" \in uploads[CircuitPath].content.cols)
                => NumberedByDownTime(circuit_data)
    /\ request.fn = "combined" =>
          /\ CarriesMovementAndOrder(unified_out)
          /\ unified_out.rows # <<>> => NumberedByDownTime(unified_out)

\* C22, the part that holds: every returned event carries a movement id and
\* an order, the unified layout numbers each movement by ascending down
\* time, and the split layout gives every event the position of its circuit
\* in the chain and the movement id M1 when the table has none
C22_OrderAsComputed ==
    /\ Correlated =>
          /\ CarriesMovementAndOrder(circuit_data)
          /\ \A i \in 1..Len(circuit_data.rows) :
                /\ circuit_data.rows[i]["order"] \in Nat
                /\ "Movement_id" \notin uploads[CircuitPath].content.cols
                      => circuit_data.rows[i]["Movement_id"] = <<"M", "1">>
    /\ request.fn = "combined" =>
          /\ CarriesMovementAndOrder(unified_out)
          /\ unified_out.rows # <<>> => NumberedByDownTime(unified_out)

-----------------------------------------------------------------------------
(* Claims about the split layout (SpecCorrelate) *)

\* the chain of the chart row the requested route matches
MatchedChain ==
    LET route_info == RouteInfo(
            NormaliseRouteIds(ReadCsv(uploads[RoutePath].content)).rows,
            Strip(request.route)).rows
    IN IF route_info = <<>> THEN <<>>
       ELSE CircuitIds(route_info[1]["Route_circuit"])

\* a call on a route chart and a circuit table with a Circuit_Name column
SplitCall ==
    /\ Correlated
    /\ CircuitPath \in DOMAIN uploads
    /\ "Circuit_Name" \in uploads[CircuitPath].content.cols

\* the labels of the valid source events on the circuits of the chain
ValidChainEvents(chain) ==
    {k - 1 : k \in {k \in 1..Len(SourceEvents) :
        /\ ~Malformed(SourceEvents[k])
        /\ request.from_time # NoTime => InsideWindow(SourceEvents[k])
        /\ \E pos \in 1..Len(chain) :
              chain[pos] = SourceEvents[k]["Circuit_Name"]}}

-----------------------------------------------------------------------------
(* Claims about the positions inside a route (SpecLayout) *)

\* the laid-out routes of the call in the order of unique_routes
LaidOutInOrder ==
    SelectSeq(layout_in.unique_routes, LAMBDA r : SequenceOf(r) # <<>>)

\* the cursor at which a laid-out route begins
CursorOf(route_id) == layout_out.route_y_ranges[route_id][1]

\* the cursor begins at 0 and advances by the sequence length plus a
\* one-unit gap after every laid-out route
CursorAdvances ==
    LET placed == LaidOutInOrder
    IN /\ placed # <<>> => CursorOf(placed[1]) = 0
       /\ \A k \in 1..(Len(placed) - 1) :
             CursorOf(placed[k + 1])
                 = CursorOf(placed[k]) + Len(SequenceOf(placed[k])) * Unit + Unit
       /\ layout_out.total_plot_height =
             (IF placed = <<>> THEN 0
              ELSE CursorOf(placed[Len(placed)])
                      + Len(SequenceOf(placed[Len(placed)])) * Unit + Unit)
             + TopPadding

\* C24: calculate_y_positions gives the circuits of a laid-out route's
\* sequence the positions cursor, cursor + 1, ... in sequence order, so that
\* of two circuits of one route the one earlier in the sequence has the
\* smaller position, and the cursor then advances by the sequence length plus
\* a one-unit gap.
C24_ConsecutivePositions ==
    LaidOut =>
        /\ CursorAdvances
        /\ \A r \in LaidOutRoutes :
              LET sequence == SequenceOf(r)
              IN \A i \in 1..Len(sequence) :
                    /\ layout_out.y_positions[PositionKey(r, sequence[i])]
                          = CursorOf(r) + (i - 1) * Unit
                    /\ \A j \in (i + 1)..Len(sequence) :
                          sequence[i] # sequence[j] =>
                              layout_out.y_positions[PositionKey(r, sequence[i])]
                                < layout_out.y_positions[PositionKey(r, sequence[j])]

\* the ticks calculate_y_positions appends for the laid-out routes before
\* the k-th one
TicksBefore(placed, k) ==
    Total([j \in 1..(k - 1) |-> Len(SequenceOf(placed[j]))])

\* C24, the part that holds: the cursor advances as stated and the ticks and
\* labels, which are lists, follow the sequences position by position; the
\* y_positions dict agrees for a route whose sequence names no circuit twice
\* and whose keys no other route writes
C24_ConsecutiveTicks ==
    LaidOut =>
        /\ CursorAdvances
        /\ LET placed == LaidOutInOrder
           IN \A k \in 1..Len(placed) :
                 LET sequence == SequenceOf(placed[k])
                     before == TicksBefore(placed, k)
                 IN \A i \in 1..Len(sequence) :
                       /\ layout_out.y_labels[before + i] = sequence[i]
                       /\ layout_out.y_positions_ticks[before + i]
                             = CursorOf(placed[k]) + (i - 1) * Unit + BarOffset
                       /\ (/\ \A j \in 1..Len(sequence) :
                                 sequence[j] = sequence[i] => j = i
                           /\ \A q \in LaidOutRoutes \ {placed[k]} :
                                 \A c \in Range(SequenceOf(q)) :
                                     PositionKey(q, c)
                                         # PositionKey(placed[k], sequence[i]))
                          => layout_out.y_positions[
                                 PositionKey(placed[k], sequence[i])]
                                = CursorOf(placed[k]) + (i - 1) * Unit

-----------------------------------------------------------------------------
(* Specification of extract_circuit_sequence as a function of its           *)
(* arguments: layout_in holds the frame and the route, layout_out the       *)
(* returned list                                                            *)

MaxEvents == 3       \* rows of a generated event frame

ExtractRows ==
    {LayoutRow(r, m, c, t) :
        r \in {<<"A">>, <<"R">>}, m \in {<<"M", "1">>, <<"M", "2">>},
        c \in {<<"B">>, <<"C">>}, t \in {1, 2}}

ExtractTables ==
    {LayoutTable({"Route_id", "Movement_id", "Circuit_Name", "Down_time"}, rows) :
        rows \in SeqsUpTo(ExtractRows, MaxEvents)}

\* what the caller receives from extract_circuit_sequence
ExtractResult(extracted) ==
    IF extracted.raised THEN [done |-> TRUE, raised |-> TRUE]
    ELSE [done |-> TRUE, raised |-> FALSE, circuits |-> extracted.circuits]

\* extract_circuit_sequence(df, route_id)
ExtractCircuitSequenceCall ==
    /\ ~layout_out.done
    /\ layout_out' = ExtractResult(ExtractCircuitSequence(layout_in.df,
                                       layout_in.unique_routes[1]))
    /\ UNCHANGED <<trainVars, uploads, clock, fileTypeCache, routeCircuitsCache, request,
                   afterClear, circuit_data, movement_times, firstSeen,
                   unified_in, unified_out, sample_in, sample_out, layout_in,
                   plot_in, plot_out, collect_in, collect_out>>

InitExtract ==
    /\ AnimationIdle
    /\ PipelineIdle
    /\ SamplerIdle
    /\ PlotIdle
    /\ CollectIdle
    /\ \E t \in ExtractTables :
          layout_in = [unique_routes |-> <<<<"A">>>>,
                       route_circuits |-> EmptyDict, df |-> t]
    /\ layout_out = [done |-> FALSE]

NextExtract == ExtractCircuitSequenceCall

SpecExtract == InitExtract /\ [][NextExtract]_vars

-----------------------------------------------------------------------------
(* Claims about the derived sequence (SpecExtract) *)

Extracted == layout_out.done /\ ~layout_out.raised

\* the labels of the frame's rows of the route and of one movement
MovementRowsOf(movement_id) ==
    {i \in 1..Len(layout_in.df.rows) :
        /\ layout_in.df.rows[i]["Route_id"] = layout_in.unique_routes[1]
        /\ layout_in.df.rows[i]["Movement_id"] = movement_id}

\* the movements of the route
RouteMovements ==
    {layout_in.df.rows[i]["Movement_id"] : i \in
        {i \in 1..Len(layout_in.df.rows) :
            layout_in.df.rows[i]["Route_id"] = layout_in.unique_routes[1]}}

\* the place of a movement's first event in the frame
FirstSeenAt(movement_id) ==
    CHOOSE i \in MovementRowsOf(movement_id) :
        \A j \in MovementRowsOf(movement_id) : i <= j

\* circuits is an ordering of the movement's events by down time
IsOrderingOf(circuits, movement_id) ==
    LET members == MovementRowsOf(movement_id)
    IN /\ Len(circuits) = Cardinality(members)
       /\ \E place \in [1..Len(circuits) -> members] :
             /\ \A a, b \in 1..Len(circuits) : place[a] = place[b] => a = b
             /\ \A a \in 1..Len(circuits) :
                   circuits[a] = layout_in.df.rows[place[a]]["Circuit_Name"]
             /\ \A a \in 1..(Len(circuits) - 1) :
                   layout_in.df.rows[place[a]]["Down_time"][2]
                       <= layout_in.df.rows[place[a + 1]]["Down_time"][2]

\* the movements with the longest ordering
LongestMovements ==
    {m \in RouteMovements :
        \A other \in RouteMovements :
            Cardinality(MovementRowsOf(other)) <= Cardinality(MovementRowsOf(m))}

\* C25: for a route without a declared sequence extract_circuit_sequence
\* returns the circuits, ordered by down time, of the movement whose ordering
\* is longest; among movements with equally long orderings the one seen
\* first in the event data wins.
C25_LongestFirstSeen ==
    Extracted =>
        IF RouteMovements = {} THEN layout_out.circuits = <<>>
        ELSE LET winner == CHOOSE m \in LongestMovements :
                     \A other \in LongestMovements :
                         FirstSeenAt(m) <= FirstSeenAt(other)
             IN /\ IsOrderingOf(layout_out.circuits, winner)
                /\ layout_out.circuits
                      = ExtractCircuitSequence(
                            [layout_in.df EXCEPT !.rows = SelectSeq(@,
                                LAMBDA row : row["Movement_id"] = winner)],
                            layout_in.unique_routes[1]).circuits

\* C25, the part that holds: the result is the ordering by down time of a
\* longest movement, and among equally long ones of the movement with the
\* smallest id
C25_LongestSmallestId ==
    Extracted =>
        IF RouteMovements = {} THEN layout_out.circuits = <<>>
        ELSE LET winner == CHOOSE m \in LongestMovements :
                     \A other \in LongestMovements \ {m} : StrLess(m, other)
             IN /\ IsOrderingOf(layout_out.circuits, winner)
                /\ layout_out.circuits
                      = ExtractCircuitSequence(
                            [layout_in.df EXCEPT !.rows = SelectSeq(@,
                                LAMBDA row : row["Movement_id"] = winner)],
                            layout_in.unique_routes[1]).circuits

-----------------------------------------------------------------------------
(* plot_movement_analysis.py: add_circuit_labels *)

TargetLabelCount == 40    \* target_label_count = min(total_labels, 40)
FewLabels == 15           \* mid-points are added to fewer than 15 labels

\* sorted(values) for int values
SortedInts(values) ==
    [k \in 1..Cardinality(values) |->
        CHOOSE s \in values : Cardinality({t \in values : t < s}) = k - 1]

\* the label_indices of add_circuit_labels for a label_step, the mid-points
\* of lines 557-561 included; i % (label_step // 2) divides by zero for a
\* label_step of 1
LabelIndices(total_labels, label_step) ==
    LET label_indices == {i \in 0..(total_labels - 1) :
            i % label_step = 0 \/ i = 0 \/ i = total_labels - 1}
        missing == FewLabels - Cardinality(label_indices)
    IN IF missing > 0 /\ total_labels > FewLabels
       THEN IF label_step \div 2 = 0 THEN [raised |-> TRUE]
            ELSE LET mid_indices == {i \in 0..(total_labels - 1) :
                         /\ i % (label_step \div 2) = label_step \div 4
                         /\ i \notin label_indices}
                     taken == {i \in mid_indices :
                         Cardinality({j \in mid_indices : j < i}) < missing}
                 IN [raised |-> FALSE,
                     label_indices |-> SortedInts(label_indices \cup taken)]
       ELSE [raised |-> FALSE, label_indices |-> SortedInts(label_indices)]

\* add_circuit_labels(fig, y_positions_ticks, y_labels): the indices of the
\* labels it draws, or the ZeroDivisionError of total_labels // 0
AddCircuitLabelsOf(y_positions_ticks) ==
    LET total_labels == Len(y_positions_ticks)
        target_label_count == Min(total_labels, TargetLabelCount)
    IN IF target_label_count = 0 THEN [raised |-> TRUE]
       ELSE LabelIndices(total_labels,
                         Max(1, total_labels \div target_label_count))

-----------------------------------------------------------------------------
(* Specification of add_circuit_labels as a function of the ticks *)

MaxLanes == 82       \* lanes of the layout handed to add_circuit_labels

\* the ticks calculate_y_positions returns for n lanes
TicksOf(n) == [i \in 1..n |-> (i - 1) * Unit + BarOffset]

AddCircuitLabels ==
    /\ plot_in.fn = "add_circuit_labels"
    /\ plot_out.fn = "none"
    /\ plot_out' = [fn |-> "add_circuit_labels"]
                       @@ AddCircuitLabelsOf(plot_in.y_positions_ticks)
    /\ UNCHANGED <<trainVars, uploads, clock, fileTypeCache, routeCircuitsCache, request,
                   afterClear, circuit_data, movement_times, firstSeen,
                   unified_in, unified_out, sample_in, sample_out, layout_in,
                   layout_out, plot_in, collect_in, collect_out>>

InitLabels ==
    /\ AnimationIdle
    /\ PipelineIdle
    /\ SamplerIdle
    /\ LayoutIdle
    /\ CollectIdle
    /\ \E n \in 0..MaxLanes :
          plot_in = [fn |-> "add_circuit_labels", y_positions_ticks |-> TicksOf(n)]
    /\ plot_out = [fn |-> "none"]

NextLabels == AddCircuitLabels

SpecLabels == InitLabels /\ [][NextLabels]_vars

-----------------------------------------------------------------------------
(* Claims about the lane labels (SpecLabels) *)

LabelCap == 50            \* "40-50 max"

Labelled == plot_out.fn = "add_circuit_labels"

Lanes == Len(plot_in.y_positions_ticks)

\* the drawn labels lie at a stride through the lanes, the last lane added
EvenStride(label_indices) ==
    \E stride \in 1..Lanes :
        Range(label_indices)
            = {i \in 0..(Lanes - 1) : i % stride = 0} \cup {Lanes - 1}

\* C26: for any number of lanes n >= 1 add_circuit_labels draws labels at an
\* even stride through the lanes, always draws the label of the first and of
\* the last lane, and never draws more than 50 labels.
C26_CappedEvenStride ==
    (Labelled /\ Lanes >= 1) =>
        /\ ~plot_out.raised
        /\ EvenStride(plot_out.label_indices)
        /\ plot_out.label_indices[1] = 0
        /\ plot_out.label_indices[Len(plot_out.label_indices)] = Lanes - 1
        /\ Len(plot_out.label_indices) <= LabelCap

\* C26, the part that holds: an even stride with the first and the last
\* lane, every index once and in ascending order
C26_EvenStride ==
    (Labelled /\ Lanes >= 1) =>
        /\ ~plot_out.raised
        /\ EvenStride(plot_out.label_indices)
        /\ plot_out.label_indices[1] = 0
        /\ plot_out.label_indices[Len(plot_out.label_indices)] = Lanes - 1
        /\ \A a \in 1..(Len(plot_out.label_indices) - 1) :
              plot_out.label_indices[a] < plot_out.label_indices[a + 1]

\* C29: add_circuit_labels completes without an arithmetic error for every
\* number of lanes n >= 0, n = 0 included.
C29_NoArithmeticError ==
    Labelled => ~plot_out.raised

\* C29, the part that holds: no arithmetic error for n >= 1; the mid-point
\* branch, whose modulus would be zero, is never entered
C29_NoErrorWithLanes ==
    (Labelled /\ Lanes >= 1) =>
        /\ ~plot_out.raised
        /\ ~(Len(plot_out.label_indices) < FewLabels /\ Lanes > FewLabels)

-----------------------------------------------------------------------------
(* Claims about upload_files (Spec) *)

KnownFileTypes == {"route_chart", "circuit_data"}

\* C27: after any sequence of uploads, route listings and cache clears,
\* upload_files keeps a saved file only if the file's current content
\* classifies as route_chart or circuit_data, and a file whose content
\* matches no format is removed; also when a file of the same name was
\* classified earlier and that classification is still in the file-type
\* cache.  The folders the program starts with hold classified files only.
C27_OnlyClassifiedKept ==
    \A p \in DOMAIN uploads :
        ClassifyColumns(uploads[p].content.cols) \in KnownFileTypes

\* the files an upload_files step has saved and kept
KeptByUpload ==
    {p \in DOMAIN uploads' : p \notin DOMAIN uploads \/ uploads'[p] # uploads[p]}

\* C27, the part that holds: upload_files keeps a saved file exactly when
\* identify_file_type, the cache of the moment included, does not answer
\* unknown for its path
C27_KeptAsIdentified ==
    [][request'.fn = "upload_files" =>
          \A p \in KeptByUpload :
              IdentifyFileType(fileTypeCache, uploads', p) \in KnownFileTypes]_vars

-----------------------------------------------------------------------------
(* Specification of the two samplers on the tables of SpecSample and on     *)
(* tables whose large group has a circuit with exactly one event            *)

\* the large group on five circuits in time order, its first event moved to
\* a circuit of its own
SingleEventTable(n) ==
    [cols |-> SampleCols,
     rows |-> <<SampleRow(<<"M", "1">>, <<"X">>, 100, 0)>>
                  \o Tail(LargeGroup(n, TRUE, FALSE, FALSE)) \o SmallGroups(n)]

SingleEventTables == {SingleEventTable(n) : n \in GroupSizes}

InitSampleAll ==
    /\ AnimationIdle
    /\ PipelineIdle
    /\ LayoutIdle
    /\ PlotIdle
    /\ CollectIdle
    /\ \E hours \in SampleSpans :
          \/ \E df \in BasicTables \cup SingleEventTables :
                sample_in = [fn |-> "apply_adaptive_sampling", df |-> df,
                             time_span_hours |-> hours]
          \/ \E df \in EnhancedTables \cup SingleEventTables :
                sample_in = [fn |-> "apply_enhanced_adaptive_sampling",
                             df |-> df, time_span_hours |-> hours]
    /\ sample_out = [fn |-> "none", df |-> NoTable]

SpecSampleAll == InitSampleAll /\ [][NextSample]_vars

-----------------------------------------------------------------------------
(* Claims about the sampled collection (SpecSampleAll) *)

\* how often an event occurs in a list of rows
TimesIn(rows, event) ==
    Cardinality({i \in 1..Len(rows) : AsInput(rows[i]) = event})

\* C28: the output of adaptive sampling (apply_adaptive_sampling and
\* apply_enhanced_adaptive_sampling) is a sub-collection of its input: it
\* contains no event that is not in the input and no input event more often
\* than the input does; also when a circuit has exactly one event in a
\* sampled group.
C28_SubCollection ==
    Sampled =>
        \A j \in 1..Len(sample_out.df.rows) :
            LET event == AsInput(sample_out.df.rows[j])
            IN /\ TimesIn(sample_in.df.rows, event) >= 1
               /\ TimesIn(sample_out.df.rows, event)
                     <= TimesIn(sample_in.df.rows, event)

\* C28, the part that holds: neither sampler returns an event that is not in
\* its input, and apply_enhanced_adaptive_sampling returns no event more
\* often than its input holds it
C28_NoForeignEvent ==
    Sampled =>
        \A j \in 1..Len(sample_out.df.rows) :
            LET event == AsInput(sample_out.df.rows[j])
            IN /\ TimesIn(sample_in.df.rows, event) >= 1
               /\ sample_out.fn = "apply_enhanced_adaptive_sampling" =>
                     TimesIn(sample_out.df.rows, event)
                         <= TimesIn(sample_in.df.rows, event)

-----------------------------------------------------------------------------
(* train_movement.py: update_active_tracks_and_trains, called by            *)
(* generate_animation_frames for every row of the signal log.  A train id   *)
(* f"Train-{n}" is kept as the number n.                                    *)

color_palette == <<"#FF0000", "#580505", "#FF69B4">>

NoTrain == 0         \* assigned_train = None

\* a loop that finds no assigned track
AssignedTrains_NeverFound(active, assignments) == {NoTrain}

\* the loop over active_set: the train of an active track that has one.  A
\* set is iterated in no particular order; any assigned track may be found
\* first.
AssignedTrains(active, assignments) ==
    IF active \cap DOMAIN assignments = {} THEN {NoTrain}
    ELSE {assignments[t] : t \in active \cap DOMAIN assignments}

\* trains[train_id]["active_tracks"] after add or remove
WithActiveTracks(all_trains, train_id, tracks) ==
    [all_trains EXCEPT ![train_id].active_tracks = tracks]

\* the pipeline takes no part in the animation
pipelineVars == <<uploads, clock, fileTypeCache, routeCircuitsCache, request,
                  afterClear, circuit_data, movement_times, firstSeen,
                  unified_in, unified_out, sample_in, sample_out, layout_in,
                  layout_out, plot_in, plot_out, collect_in, collect_out>>

MaxTrains == 4       \* trains created in one animation

\* the status 'down' of a track of the layout (lines 262-288)
TrackDown(name, track_to_edge_idx) ==
    /\ name \in track_to_edge_idx
    /\ active_set' = active_set \cup {name}
    /\ IF name \notin DOMAIN train_assignments
       THEN \E found \in AssignedTrains(active_set', train_assignments) :
               IF found = NoTrain
               THEN /\ train_count < MaxTrains
                    /\ train_count' = train_count + 1
                    /\ train_assignments' =
                           (name :> train_count') @@ train_assignments
                    /\ trains' = (train_count' :>
                           [color |-> color_palette[
                                ((train_count' - 1) % Len(color_palette)) + 1],
                            active_tracks |-> {name}]) @@ trains
               ELSE /\ train_assignments' = (name :> found) @@ train_assignments
                    /\ trains' = WithActiveTracks(trains, found,
                                     trains[found].active_tracks \cup {name})
                    /\ UNCHANGED train_count
       ELSE UNCHANGED <<train_assignments, train_count, trains>>

\* the status 'up' of an active track (lines 291-301)
TrackUp(name) ==
    /\ name \in active_set
    /\ active_set' = active_set \ {name}
    /\ IF name \in DOMAIN train_assignments
       THEN LET train_id == train_assignments[name]
            IN /\ trains' = IF train_id \in DOMAIN trains
                            THEN WithActiveTracks(trains, train_id,
                                     trains[train_id].active_tracks \ {name})
                            ELSE trains
               /\ train_assignments' =
                      [t \in DOMAIN train_assignments \ {name} |->
                          train_assignments[t]]
       ELSE UNCHANGED <<train_assignments, trains>>
    /\ UNCHANGED train_count

\* update_active_tracks_and_trains(name, status, ...): any other row of the
\* log changes nothing
UpdateActiveTracksAndTrains(name, status, track_to_edge_idx) ==
    /\ IF status = "down" /\ name \in track_to_edge_idx
       THEN TrackDown(name, track_to_edge_idx)
       ELSE IF status = "up" /\ name \in active_set
       THEN TrackUp(name)
       ELSE UNCHANGED trainVars
    /\ UNCHANGED pipelineVars

-----------------------------------------------------------------------------
(* Specification of the animation: the rows of a signal log in any order *)

Tracks == {"T1", "T2", "T3", "T4", "T5"}

\* the log also holds signals that are no track of the layout
SignalNames == Tracks \cup {"S1"}

SignalStatuses == {"down", "up", "unknown"}

InitAnimation ==
    /\ AnimationIdle
    /\ PipelineIdle
    /\ OtherInputsIdle

NextAnimation ==
    \E name \in SignalNames, status \in SignalStatuses :
        UpdateActiveTracksAndTrains(name, status, Tracks)

SpecAnimation == InitAnimation /\ [][NextAnimation]_vars

-----------------------------------------------------------------------------
(* Claims about the train assignment (SpecAnimation) *)

\* all active tracks are assigned, to one and the same train, and no other
\* track is assigned
OneTrainOnActiveSet ==
    /\ DOMAIN train_assignments = active_set
    /\ \A a, b \in active_set : train_assignments[a] = train_assignments[b]

\* a step creates a train only when, the track of the row aside, no active
\* track has a train, and the counter then grows by one
NewTrainOnlyWhenNoneActive ==
    train_count' # train_count =>
        /\ train_count' = train_count + 1
        /\ active_set \cap DOMAIN train_assignments = {}
        /\ \E name \in Tracks \ active_set :
              /\ active_set' = active_set \cup {name}
              /\ train_assignments' = (name :> train_count') @@ train_assignments

====
